---- MODULE Spec2Model ----
(***************************************************************************)
(* A model of the pureimage rasterizer: the Bitmap pixel buffer            *)
(* (bitmap.ts) and the drawing Context (context.ts) that paints on it.     *)
(*                                                                         *)
(* Numbers.  A JavaScript number is modelled in fixed point: the integer n *)
(* stands for the number n / Sub, so Sub stands for 1.0 and Math.floor is  *)
(* a real operation.  Bytes, buffer indices and the linear coefficients of *)
(* the transform matrix are plain integers.  A uint32 colour 0xRRGGBBAA is *)
(* the pair <<0xRRGG, 0xBBAA>> of its 16-bit halves.                       *)
(***************************************************************************)
EXTENDS Integers, Sequences, FiniteSets, TLC

\* ------------------------------------------------------------------ bounds
\* sub-units per 1.0 of the fixed-point numbers
Sub == 2
\* the arguments of new Bitmap(w, h)
BitmapW == 3
BitmapH == 2
\* the number of Bitmap operations of one run
MaxBitmapOps == 3
\* the number of operations of one run on the path and the transform
MaxPathOps == 5
\* the number of operations of one run on the styles and the saved states
MaxStyleOps == 3
\* the number of operations of one run of path, clip and paint operations
MaxPaintOps == 6
\* the largest width and height of the rectangles filled, in pixels
MaxRect == 2
\* the number of statements of the caller that fills one rectangle
MaxRectOps == 10
\* the number of pixels after which a loop of drawLine_aa counts as endless
MaxLineSteps == 16
\* the number of steps of a caller of composite: set the global alpha, call
MaxCompositeOps == 2
\* the largest coordinate, in pixels, of the points asked of the clip test
MaxQuery == 5
\* operations in a run of SpecClip
MaxClipOps == 5
\* operations in a run of SpecUnsupported
MaxUnsupportedOps == 5
\* operations in a run of SpecFont
MaxFontOps == 5
\* operations in a run of SpecText
MaxTextOps == 5
\* units of the numbers of the cubic code in one sub-unit
CubicFrac == 64
\* the largest finite number of the cubic code, in its units: what
\* Number.MAX_VALUE is to a double
MaxValue == 4194304
\* the frames of recurse() that the call stack holds
MaxCallStack == 10
\* operations in a run of SpecCubic
MaxCubicOps == 1
\* the pixel coordinate from which the integers are too large for a step of
\* one: what 2^54 is to a double
Coarse == 4096
\* operations in a run of SpecLine
MaxLineOps == 6
\* operations in a run of SpecFlatten
MaxFlattenOps == 5
\* operations in a run of SpecOutline
MaxOutlineOps == 7


One == Sub
Num(n) == n * Sub

\* ----------------------------------------------------------------- numbers
\* Math.floor, number to number
floor(v) == (v \div Sub) * Sub

\* the integer an integral number stands for (a buffer index, a loop count)
ToInt(v) == v \div Sub

Min(a, b) == IF a < b THEN a ELSE b
Max(a, b) == IF a > b THEN a ELSE b

\* ------------------------------------------------------------------ uint32
getBytesBigEndian(c) ==
  << c[1] \div 256, c[1] % 256, c[2] \div 256, c[2] % 256 >>

fromBytesBigEndian(b0, b1, b2, b3) ==
  << (b0 % 256) * 256 + (b1 % 256), (b2 % 256) * 256 + (b3 % 256) >>

\* NAMED_COLORS
transparent == << 0, 0 >>
black == << 0, 255 >>
red == << 65280, 255 >>
blue == << 0, 65535 >>

\* ---------------------------------------------------------------- the state
VARIABLES
  bitmap,                 \* Context.bitmap: [width, height, data], data the RGBA bytes
  _fillColor,             \* Context._fillColor, a uint32 (solid styles only)
  _strokeColor,           \* Context._strokeColor
  _lineWidth,             \* Context._lineWidth, an extended number
  _globalAlpha,           \* Context._globalAlpha, an extended number
  transform,              \* Context.transform: [matrix, stack]
  _font,                  \* Context._font: [family, size]
  textAlign,              \* Context.textAlign
  textBaseline,           \* Context.textBaseline
  imageSmoothingEnabled,  \* Context.imageSmoothingEnabled
  path,                   \* Context.path: undefinedPath, or a sequence of commands
  _clip,                  \* Context._clip: undefinedClip, or a sequence of lines
  pathstart,              \* Context.pathstart: undefined, or a point
  writes,                 \* the bitmap.setPixelRGBA calls of the last operation
  snapshots,              \* history: the state at each save() not yet restored,
                          \* and the one the last restore() popped
  _fonts,                 \* text.ts _fonts: its keys in insertion order, each with
                          \* a reference into fontObjects
  fontObjects,            \* the ITextFont objects that registerFont has created
  loads,                  \* the calls of load(cb): the state of the file load of
                          \* each and the number of times its cb has been invoked
  console,                \* the console.warn calls so far
  script,                 \* the caller: its inputs and the statement it is at
  last,                   \* the operation that ran last, its arguments and outcome
  nops                    \* the number of operations run so far

ctxStyle == << _fillColor, _strokeColor, _lineWidth, _globalAlpha, _font,
               textAlign, textBaseline, imageSmoothingEnabled >>
ctxPath == << path, pathstart >>
ctx == << ctxStyle, transform, ctxPath, _clip >>
textModule == << _fonts, fontObjects, loads, console >>
vars == << bitmap, ctx, textModule, writes, snapshots, script, last, nops >>

\* ------------------------------------------------------------------ Bitmap
\* new Bitmap(w, h): every pixel is set to NAMED_COLORS.transparent
NewBitmap(w, h) ==
  [width |-> floor(Num(w)), height |-> floor(Num(h)),
   data |-> [i \in 0 .. (w * h * 4 - 1) |-> 0]]

calculateIndex(b, x, y) ==
  LET fx == floor(x)
      fy == floor(y)
  IN IF fx < 0 \/ fy < 0 \/ fx >= b.width \/ fy >= b.height
       THEN 0
       ELSE (ToInt(b.width) * ToInt(fy) + ToInt(fx)) * 4

\* the bitmap after b.setPixelRGBA(x, y, rgba)
setPixelRGBA(b, x, y, rgba) ==
  LET i == calculateIndex(b, x, y)
      bytes == getBytesBigEndian(rgba)
  IN [b EXCEPT !.data = [@ EXCEPT ![i] = bytes[1], ![i + 1] = bytes[2],
                                  ![i + 2] = bytes[3], ![i + 3] = bytes[4]]]

\* the bitmap after b.setPixelRGBA_i(x, y, r, g, b, a)
setPixelRGBA_i(b, x, y, r, g, bl, a) ==
  LET i == calculateIndex(b, x, y)
  IN [b EXCEPT !.data = [@ EXCEPT ![i] = r % 256, ![i + 1] = g % 256,
                                  ![i + 2] = bl % 256, ![i + 3] = a % 256]]

getPixelRGBA(b, x, y) ==
  LET i == calculateIndex(b, x, y)
  IN fromBytesBigEndian(b.data[i], b.data[i + 1], b.data[i + 2], b.data[i + 3])

\* (x, y) floors to a pixel of bitmap b
InBounds(b, x, y) ==
  /\ floor(x) >= 0 /\ floor(x) < b.width
  /\ floor(y) >= 0 /\ floor(y) < b.height

\* the pixels of bitmap b, as pairs of integers
Pixels(b) ==
  { <<i, j>> : i \in 0 .. (ToInt(b.width) - 1), j \in 0 .. (ToInt(b.height) - 1) }

\* the colour of pixel (i, j), i and j integers, read from the bytes
PixelAt(b, i, j) ==
  LET k == (ToInt(b.width) * j + i) * 4
  IN << b.data[k] * 256 + b.data[k + 1], b.data[k + 2] * 256 + b.data[k + 3] >>

Op(name, args, ret, threw) ==
  [op |-> name, args |-> args, ret |-> ret, threw |-> threw]

\* -------------------------------------------------------- extended numbers
\* The numbers a style setter may be given: finite ones, the infinities, NaN.
Fin(n) == [kind |-> "finite", v |-> n]
Infinity == [kind |-> "Infinity", v |-> 0]
NegInfinity == [kind |-> "-Infinity", v |-> 0]
NaN == [kind |-> "NaN", v |-> 0]

\* JavaScript a < b: false whenever an operand is NaN
Less(a, b) ==
  /\ a.kind # "NaN"
  /\ b.kind # "NaN"
  /\ \/ a.kind = "-Infinity" /\ b.kind # "-Infinity"
     \/ b.kind = "Infinity" /\ a.kind # "Infinity"
     \/ a.kind = "finite" /\ b.kind = "finite" /\ a.v < b.v

clamp(value, min, max) ==
  IF Less(value, min) THEN min
  ELSE IF Less(max, value) THEN max
  ELSE value

\* --------------------------------------------------------------- Transform
\* matrix = <<a, b, c, d, e, f>>: the point (x, y) goes to
\* (a*x + c*y + e, b*x + d*y + f).  a..d are integers, e and f numbers.
NewTransform == [matrix |-> << 1, 0, 0, 1, 0, 0 >>, stack |-> << >>]

Transform_translate(t, x, y) ==
  LET m == t.matrix
  IN [t EXCEPT !.matrix = [m EXCEPT ![5] = m[5] + m[1] * x + m[3] * y,
                                    ![6] = m[6] + m[2] * x + m[4] * y]]

\* cos and sin of q quarter turns
cosQ(q) == << 1, 0, 0 - 1, 0 >>[(q % 4) + 1]
sinQ(q) == << 0, 1, 0, 0 - 1 >>[(q % 4) + 1]

\* rotate(q * PI / 2)
Transform_rotate(t, q) ==
  LET m == t.matrix
      c == cosQ(q)
      s == sinQ(q)
  IN [t EXCEPT !.matrix = [m EXCEPT ![1] = m[1] * c + m[3] * s,
                                    ![2] = m[2] * c + m[4] * s,
                                    ![3] = m[3] * c - m[1] * s,
                                    ![4] = m[4] * c - m[2] * s]]

\* scale(sx, sy), sx and sy integral numbers
Transform_scale(t, sx, sy) ==
  LET m == t.matrix
  IN [t EXCEPT !.matrix = [m EXCEPT ![1] = m[1] * ToInt(sx),
                                    ![2] = m[2] * ToInt(sx),
                                    ![3] = m[3] * ToInt(sy),
                                    ![4] = m[4] * ToInt(sy)]]

Transform_save(t) == [t EXCEPT !.stack = Append(@, t.matrix)]

Transform_restore(t) ==
  IF Len(t.stack) > 0
    THEN [matrix |-> t.stack[Len(t.stack)],
          stack |-> SubSeq(t.stack, 1, Len(t.stack) - 1)]
    ELSE t

Point(x, y) == [x |-> x, y |-> y]

transformPoint(t, pt) ==
  LET m == t.matrix
  IN Point(pt.x * m[1] + pt.y * m[3] + m[5], pt.x * m[2] + pt.y * m[4] + m[6])

\* ----------------------------------------------------------------- Context
\* the JavaScript value undefined, where a point is expected
undefined == [undefined |-> TRUE]
\* Context.path before the first beginPath(), Context._clip before the first clip()
undefinedPath == << undefined >>
undefinedClip == << undefined >>

\* PATH_COMMAND
MOVE == "m"
LINE == "l"
QUADRATIC_CURVE == "q"
BEZIER_CURVE == "b"

\* a path command [type, point, ...points]
Cmd(type, pts) == [cmd |-> type, pts |-> pts]

\* new Context(bitmap), in a process that has just loaded text.ts
NewContext(b) ==
  /\ bitmap = b
  /\ _fillColor = black
  /\ _strokeColor = black
  /\ _lineWidth = Fin(One)
  /\ _globalAlpha = Fin(One)
  /\ transform = NewTransform
  /\ _font = [family |-> "invalid", size |-> 12]
  /\ textAlign = "start"
  /\ textBaseline = "alphabetic"
  /\ imageSmoothingEnabled = TRUE
  /\ path = undefinedPath
  /\ _clip = undefinedClip
  /\ pathstart = undefined
  /\ _fonts = << >>
  /\ fontObjects = << >>
  /\ loads = << >>
  /\ console = << >>
  /\ writes = << >>
  /\ snapshots = [stack |-> << >>, popped |-> << >>]
  /\ last = Op("new", << >>, << >>, FALSE)
  /\ nops = 0

\* colorStringToUint32 on the colour strings the model assigns
colorStringToUint32(str) ==
  CASE str = "red" -> red
    [] str = "blue" -> blue
    [] str = "black" -> black
    [] str = "transparent" -> transparent
    [] str = "#00ff0080" -> << 255, 128 >>

\* ---- style
set_fillStyle(val) ==
  /\ _fillColor' = colorStringToUint32(val)
  /\ last' = Op("set fillStyle", << val >>, << >>, FALSE)
  /\ writes' = << >>
  /\ UNCHANGED << bitmap, _strokeColor, _lineWidth, _globalAlpha, _font, textAlign,
                  textBaseline, imageSmoothingEnabled, transform, ctxPath, _clip >>

set_strokeStyle(val) ==
  /\ _strokeColor' = colorStringToUint32(val)
  /\ last' = Op("set strokeStyle", << val >>, << >>, FALSE)
  /\ writes' = << >>
  /\ UNCHANGED << bitmap, _fillColor, _lineWidth, _globalAlpha, _font, textAlign,
                  textBaseline, imageSmoothingEnabled, transform, ctxPath, _clip >>

set_lineWidth(val) ==
  /\ _lineWidth' = val
  /\ last' = Op("set lineWidth", << val >>, << >>, FALSE)
  /\ writes' = << >>
  /\ UNCHANGED << bitmap, _fillColor, _strokeColor, _globalAlpha, _font, textAlign,
                  textBaseline, imageSmoothingEnabled, transform, ctxPath, _clip >>

set_globalAlpha(val) ==
  /\ _globalAlpha' = clamp(val, Fin(0), Fin(One))
  /\ last' = Op("set globalAlpha", << val >>, << >>, FALSE)
  /\ writes' = << >>
  /\ UNCHANGED << bitmap, _fillColor, _strokeColor, _lineWidth, _font, textAlign,
                  textBaseline, imageSmoothingEnabled, transform, ctxPath, _clip >>

\* ctx.font = "<size>pt <family>"
set_font(size, family) ==
  /\ _font' = [family |-> family, size |-> size]
  /\ last' = Op("set font", << size, family >>, << >>, FALSE)
  /\ writes' = << >>
  /\ UNCHANGED << bitmap, _fillColor, _strokeColor, _lineWidth, _globalAlpha,
                  textAlign, textBaseline, imageSmoothingEnabled, transform,
                  ctxPath, _clip >>

set_textAlign(val) ==
  /\ textAlign' = val
  /\ last' = Op("set textAlign", << val >>, << >>, FALSE)
  /\ writes' = << >>
  /\ UNCHANGED << bitmap, _fillColor, _strokeColor, _lineWidth, _globalAlpha, _font,
                  textBaseline, imageSmoothingEnabled, transform, ctxPath, _clip >>

set_textBaseline(val) ==
  /\ textBaseline' = val
  /\ last' = Op("set textBaseline", << val >>, << >>, FALSE)
  /\ writes' = << >>
  /\ UNCHANGED << bitmap, _fillColor, _strokeColor, _lineWidth, _globalAlpha, _font,
                  textAlign, imageSmoothingEnabled, transform, ctxPath, _clip >>

set_imageSmoothingEnabled(val) ==
  /\ imageSmoothingEnabled' = val
  /\ last' = Op("set imageSmoothingEnabled", << val >>, << >>, FALSE)
  /\ writes' = << >>
  /\ UNCHANGED << bitmap, _fillColor, _strokeColor, _lineWidth, _globalAlpha, _font,
                  textAlign, textBaseline, transform, ctxPath, _clip >>

\* ---- transform
save ==
  /\ transform' = Transform_save(transform)
  /\ last' = Op("save", << >>, << >>, FALSE)
  /\ writes' = << >>
  /\ UNCHANGED << bitmap, ctxStyle, ctxPath, _clip >>

\* restore() as the canvas standard has it: the style comes back as well
restore_style ==
  /\ transform' = Transform_restore(transform)
  /\ last' = Op("restore", << >>, << >>, FALSE)
  /\ writes' = << >>
  /\ _globalAlpha' = Fin(One)
  /\ UNCHANGED << bitmap, _fillColor, _strokeColor, _lineWidth, _font, textAlign,
                  textBaseline, imageSmoothingEnabled, ctxPath, _clip >>

restore ==
  /\ transform' = Transform_restore(transform)
  /\ last' = Op("restore", << >>, << >>, FALSE)
  /\ writes' = << >>
  /\ UNCHANGED << bitmap, ctxStyle, ctxPath, _clip >>

translate(x, y) ==
  /\ transform' = Transform_translate(transform, x, y)
  /\ last' = Op("translate", << x, y >>, << >>, FALSE)
  /\ writes' = << >>
  /\ UNCHANGED << bitmap, ctxStyle, ctxPath, _clip >>

rotate(q) ==
  /\ transform' = Transform_rotate(transform, q)
  /\ last' = Op("rotate", << q >>, << >>, FALSE)
  /\ writes' = << >>
  /\ UNCHANGED << bitmap, ctxStyle, ctxPath, _clip >>

scale(sx, sy) ==
  /\ transform' = Transform_scale(transform, sx, sy)
  /\ last' = Op("scale", << sx, sy >>, << >>, FALSE)
  /\ writes' = << >>
  /\ UNCHANGED << bitmap, ctxStyle, ctxPath, _clip >>

\* ---- path
\* path.push(cmd): a TypeError while path is undefined
push(name, args, cmd) ==
  IF path = undefinedPath
    THEN /\ path' = path
         /\ last' = Op(name, args, << >>, TRUE)
    ELSE /\ path' = Append(path, cmd)
         /\ last' = Op(name, args, << >>, FALSE)

beginPath ==
  /\ path' = << >>
  /\ last' = Op("beginPath", << >>, << >>, FALSE)
  /\ writes' = << >>
  /\ UNCHANGED << bitmap, ctxStyle, transform, pathstart, _clip >>

_moveTo(pt) ==
  LET tp == transformPoint(transform, pt)
  IN /\ pathstart' = tp
     /\ push("moveTo", << pt >>, Cmd(MOVE, << tp >>))
     /\ writes' = << >>
     /\ UNCHANGED << bitmap, ctxStyle, transform, _clip >>

moveTo(x, y) == _moveTo(Point(x, y))

\* _lineTo storing its argument as given, to be transformed when drawn
_lineTo_untransformed(pt) ==
  /\ push("lineTo", << pt >>, Cmd(LINE, << pt >>))
  /\ writes' = << >>
  /\ UNCHANGED << bitmap, ctxStyle, transform, pathstart, _clip >>

_lineTo(pt) ==
  /\ push("lineTo", << pt >>, Cmd(LINE, << transformPoint(transform, pt) >>))
  /\ writes' = << >>
  /\ UNCHANGED << bitmap, ctxStyle, transform, pathstart, _clip >>

lineTo(x, y) == _lineTo(Point(x, y))

quadraticCurveTo(cp1x, cp1y, x, y) ==
  LET cp1 == transformPoint(transform, Point(cp1x, cp1y))
      pt == transformPoint(transform, Point(x, y))
  IN /\ push("quadraticCurveTo", << Point(cp1x, cp1y), Point(x, y) >>,
             Cmd(QUADRATIC_CURVE, << cp1, pt >>))
     /\ writes' = << >>
     /\ UNCHANGED << bitmap, ctxStyle, transform, pathstart, _clip >>

_bezierCurveTo(cp1, cp2, pt) ==
  /\ push("bezierCurveTo", << cp1, cp2, pt >>,
          Cmd(BEZIER_CURVE, << transformPoint(transform, cp1),
                               transformPoint(transform, cp2),
                               transformPoint(transform, pt) >>))
  /\ writes' = << >>
  /\ UNCHANGED << bitmap, ctxStyle, transform, pathstart, _clip >>

bezierCurveTo(cp1x, cp1y, cp2x, cp2y, x, y) ==
  _bezierCurveTo(Point(cp1x, cp1y), Point(cp2x, cp2y), Point(x, y))

closePath ==
  /\ push("closePath", << >>, Cmd(LINE, << pathstart >>))
  /\ writes' = << >>
  /\ UNCHANGED << bitmap, ctxStyle, transform, pathstart, _clip >>

\* ---- flattening
\* the JavaScript value null, where a point is expected
null == [null |-> TRUE]

\* new Line(start, end)
Line(start, end) == [start |-> start, end |-> end]

\* a point that is an object with coordinates (not null, not undefined)
IsPoint(pt) == pt # null /\ pt # undefined

\* ---- the arithmetic of the cubic code
\* bezierToLines, splitCurveAtT, midpoint and flatness compute in doubles.
\* Here a number of theirs is an extended number in units of 1 / CubicFrac of
\* a sub-unit: a result beyond MaxValue is an infinity, as a double beyond
\* Number.MAX_VALUE is, and a quotient is rounded down to a unit.
CubicUnit == Sub * CubicFrac

Abs(v) == IF v < 0 THEN 0 - v ELSE v

Overflow(n) ==
  IF n > MaxValue THEN Infinity
  ELSE IF n < 0 - MaxValue THEN NegInfinity
  ELSE Fin(n)

\* a + b, a sum beyond max being an infinity
Sum(a, b, max) ==
  CASE a.kind = "NaN" \/ b.kind = "NaN" -> NaN
    [] a.kind = "finite" /\ b.kind = "finite" ->
         IF a.v + b.v > max THEN Infinity
         ELSE IF a.v + b.v < 0 - max THEN NegInfinity
         ELSE Fin(a.v + b.v)
    [] a.kind = "finite" /\ b.kind # "finite" -> b
    [] a.kind # "finite" /\ b.kind = "finite" -> a
    [] OTHER -> IF a.kind = b.kind THEN a ELSE NaN

\* a + b of two coordinates
Plus(a, b) == Sum(a, b, MaxValue)

\* - a
Neg(a) ==
  CASE a.kind = "finite" -> Fin(0 - a.v)
    [] a.kind = "Infinity" -> NegInfinity
    [] a.kind = "-Infinity" -> Infinity
    [] OTHER -> NaN

\* a - b
Minus(a, b) == Plus(a, Neg(b))

\* k * a for the literals k = 2 and k = 3
TimesInt(k, a) == IF a.kind = "finite" THEN Overflow(k * a.v) ELSE a

\* a * t for a rational t in (0, 1)
TimesRat(a, t) == IF a.kind = "finite" THEN Fin((a.v * t.n) \div t.d) ELSE a

\* Math.pow(a, 2), in square units, of which MaxValue * CubicUnit are the
\* largest finite number
pow2(a) ==
  CASE a.kind = "NaN" -> NaN
    [] a.kind \in { "Infinity", "-Infinity" } -> Infinity
    [] OTHER ->
         IF a.v # 0 /\ Abs(a.v) > (MaxValue * CubicUnit) \div Abs(a.v)
           THEN Infinity
           ELSE Fin(a.v * a.v)

\* a point of the path as a point of the cubic code, and back
toCubic(pt) == [x |-> Overflow(pt.x * CubicFrac), y |-> Overflow(pt.y * CubicFrac)]
fromCubic(pt) == Point(pt.x.v \div CubicFrac, pt.y.v \div CubicFrac)

\* ---- cubic curves
midpoint(p1, p2, t) ==
  [x |-> Plus(TimesRat(Minus(p2.x, p1.x), t), p1.x),
   y |-> Plus(TimesRat(Minus(p2.y, p1.y), t), p1.y)]

\* the two curves that splitCurveAtT returns, from its inner points
splitAt(p, p12, p34, p123, p234, p1234) ==
  << << p[1], p12, p123, p1234 >>, << p1234, p234, p34, p[4] >> >>

splitInner(p, p12, p34, p123, p234, t) ==
  CHOOSE split \in { splitAt(p, p12, p34, p123, p234, p1234) :
                       p1234 \in { midpoint(p123, p234, t) } } : TRUE

splitOuter(p, p12, p23, p34, t) ==
  CHOOSE split \in { splitInner(p, p12, p34, p123, p234, t) :
                       p123 \in { midpoint(p12, p23, t) },
                       p234 \in { midpoint(p23, p34, t) } } : TRUE

splitCurveAtT(p, t) ==
  CHOOSE split \in { splitOuter(p, p12, p23, p34, t) :
                       p12 \in { midpoint(p[1], p[2], t) },
                       p23 \in { midpoint(p[2], p[3], t) },
                       p34 \in { midpoint(p[4], p[3], t) } } : TRUE

\* if (ux < vx) ux = vx
larger(u, v) == IF Less(u, v) THEN v ELSE u

flatness(curve) ==
  Sum(larger(pow2(Minus(Minus(TimesInt(3, curve[2].x), TimesInt(2, curve[1].x)), curve[4].x)),
             pow2(Minus(Minus(TimesInt(3, curve[3].x), TimesInt(2, curve[4].x)), curve[1].x))),
      larger(pow2(Minus(Minus(TimesInt(3, curve[2].y), TimesInt(2, curve[1].y)), curve[4].y)),
             pow2(Minus(Minus(TimesInt(3, curve[3].y), TimesInt(2, curve[4].y)), curve[1].y))),
      MaxValue * CubicUnit)

\* flatness(curve) < THRESHOLD, THRESHOLD in square pixels
flat(curve, THRESHOLD) == Less(flatness(curve), Fin(THRESHOLD * CubicUnit * CubicUnit))

\* the RangeError of a call that the stack has no room for, in the place of
\* the points that the call would have returned
RangeError == [RangeError |-> TRUE]

\* recurse(curve) in the frame number depth of the call stack: the points it
\* returns; an error of either half ends the whole call, so that the points
\* hold RangeError when one of the calls threw
RECURSIVE recurse(_, _, _)
recurse(curve, THRESHOLD, depth) ==
  IF depth > MaxCallStack THEN << RangeError >>
  ELSE IF flat(curve, THRESHOLD) THEN << curve[1], curve[4] >>
  ELSE CHOOSE pts \in { recurse(split[1], THRESHOLD, depth + 1)
                          \o recurse(split[2], THRESHOLD, depth + 1) :
                        split \in { splitCurveAtT(curve, [n |-> 1, d |-> 2]) } } : TRUE

\* bezierToLines(curve, THRESHOLD): [pts, threw]
bezierToLinesResult(pts) ==
  IF \E i \in 1 .. Len(pts) : pts[i] = RangeError
    THEN [pts |-> << >>, threw |-> TRUE]
    ELSE [pts |-> pts, threw |-> FALSE]

bezierToLines(curve, THRESHOLD) ==
  CHOOSE r \in { bezierToLinesResult(pts) : pts \in { recurse(curve, THRESHOLD, 1) } } : TRUE

\* The iterations of for (t = 0; t < 1; t += 0.1) in IEEE doubles.  The sums
\* of t are 0, 0.1, 0.2, 0.30000000000000004, 0.4, 0.5, 0.6, 0.7,
\* 0.7999999999999999, 0.8999999999999999 and 0.9999999999999999: the tenth
\* sum is still below 1, so the body runs an eleventh time.
QuadraticIterations == 11

\* calcQuadraticAtT(p, t) for t = k / 10.  The model rounds t to the nearest
\* tenth, and draws its curves between points whose coordinates are
\* multiples of 100 sub-units, where the quotient is exact.
calcQuadraticAtT(p, k) ==
  Point(((10 - k) * (10 - k) * p[1].x + 2 * (10 - k) * k * p[2].x + k * k * p[3].x) \div 100,
        ((10 - k) * (10 - k) * p[1].y + 2 * (10 - k) * k * p[2].y + k * k * p[3].y) \div 100)

\* The eleventh point is calcQuadraticAtT(pts, 0.9999999999999999), a double
\* next to the end point c of the curve, and the model keeps the side it lies
\* on: sign(a), sign(b) and sign(c) being those of a coordinate of the three
\* points, the double is above c (1), below c (-1) or c itself (0).  On IEEE
\* doubles the sum (1 - t)(1 - t) a + 2 (1 - t) t b + t t c is c itself only when
\* b = c and either c # 0 or a = 0.
sign(v) == IF v > 0 THEN 1 ELSE IF v < 0 THEN 0 - 1 ELSE 0

quadraticEndSide(a, aside, b, c) ==
  IF b # c THEN sign(b - c)
  ELSE IF c # 0 THEN 0
  ELSE IF a # 0 THEN sign(a)
  ELSE aside

\* the for loop of the QUADRATIC_CURVE branch: the segment to the first sample
\* starts at curr, every other one at the sample before, and the last sample
\* is the current point after the loop
quadraticLines(st, pts) ==
  [st EXCEPT !.lines = @ \o [i \in 1 .. QuadraticIterations |->
                               Line(IF i = 1 THEN st.curr ELSE calcQuadraticAtT(pts, i - 2),
                                    calcQuadraticAtT(pts, i - 1))],
             !.curr = calcQuadraticAtT(pts, QuadraticIterations - 1),
             !.side = << quadraticEndSide(pts[1].x, st.side[1], pts[2].x, pts[3].x),
                         quadraticEndSide(pts[1].y, st.side[2], pts[2].y, pts[3].y) >>]

\* the forEach of the BEZIER_CURVE branch over the points pts: the segment to
\* the first point starts at curr, every other one at the point before
bezierLines(st, pts) ==
  [st EXCEPT !.lines = @ \o [i \in 1 .. Len(pts) |->
                               Line(IF i = 1 THEN st.curr ELSE fromCubic(pts[i - 1]),
                                    fromCubic(pts[i]))],
             !.curr = fromCubic(pts[Len(pts)]),
             !.side = << 0, 0 >>]

\* the BEZIER_CURVE branch on the points that bezierToLines returned, or its
\* RangeError
bezierBranch(st, r) ==
  IF r.threw THEN [st EXCEPT !.threw = TRUE] ELSE bezierLines(st, r.pts)

\* The state of the forEach of pathToLines after the first n commands:
\* [lines, curr, side, threw]; curr is the current point on the grid of the
\* model and side tells, for x and y, on which side of it the double of the
\* code lies (0: on it).  calcQuadraticAtT reads p[0].x, a TypeError when the
\* current point is null or undefined.
RECURSIVE pathToLinesState(_, _)
\* the body of the forEach on the command cmd, in the state st
pathToLinesCommand(st, cmd) ==
  CASE st.threw -> st
    [] ~st.threw /\ cmd.cmd = MOVE ->
         [st EXCEPT !.curr = cmd.pts[1], !.side = << 0, 0 >>]
    [] ~st.threw /\ cmd.cmd = LINE ->
         [st EXCEPT !.lines = Append(@, Line(st.curr, cmd.pts[1])),
                    !.curr = cmd.pts[1], !.side = << 0, 0 >>]
    [] ~st.threw /\ cmd.cmd = QUADRATIC_CURVE ->
         IF IsPoint(st.curr)
           THEN quadraticLines(st, << st.curr, cmd.pts[1], cmd.pts[2] >>)
           ELSE [st EXCEPT !.threw = TRUE]
    [] ~st.threw /\ cmd.cmd = BEZIER_CURVE ->
         IF IsPoint(st.curr)
           THEN CHOOSE s \in { bezierBranch(st, r) :
                                 r \in { bezierToLines(<< toCubic(st.curr), toCubic(cmd.pts[1]),
                                                          toCubic(cmd.pts[2]), toCubic(cmd.pts[3]) >>,
                                                        10) } } : TRUE
           ELSE [st EXCEPT !.threw = TRUE]

pathToLinesState(p, n) ==
  IF n = 0
    THEN [lines |-> << >>, curr |-> null, side |-> << 0, 0 >>, threw |-> FALSE]
    ELSE CHOOSE s \in { pathToLinesCommand(st, p[n]) :
                          st \in { pathToLinesState(p, n - 1) } } : TRUE

pathToLines(p) == pathToLinesState(p, Len(p)).lines
pathToLinesThrows(p) == p = undefinedPath \/ pathToLinesState(p, Len(p)).threw

\* ---- operations that are not implemented
\* throw new Error(message): the arguments of the call are never read
unsupported(name) ==
  /\ last' = Op(name, << >>, << name \o " not yet supported" >>, TRUE)
  /\ writes' = << >>
  /\ UNCHANGED << bitmap, ctxStyle, transform, ctxPath, _clip >>

arcTo == unsupported("arcTo")

\* rect() as the canvas standard has it: a closed sub-path of four corners
rect_subpath ==
  /\ push("rect", << >>, Cmd(MOVE, << transformPoint(transform, Point(0, 0)) >>))
  /\ pathstart' = transformPoint(transform, Point(0, 0))
  /\ writes' = << >>
  /\ UNCHANGED << bitmap, ctxStyle, transform, _clip >>

rect == unsupported("rect")

ellipse == unsupported("ellipse")

\* ---- clip
\* clip() keeping the lines of the clip it had and adding those of the path
clip_add ==
  /\ IF pathToLinesThrows(path)
       THEN /\ _clip' = _clip
            /\ last' = Op("clip", << >>, << >>, TRUE)
       ELSE /\ _clip' = (IF _clip = undefinedClip THEN << >> ELSE _clip) \o pathToLines(path)
            /\ last' = Op("clip", << >>, << >>, FALSE)
  /\ writes' = << >>
  /\ UNCHANGED << bitmap, ctxStyle, transform, ctxPath >>

clip ==
  /\ IF pathToLinesThrows(path)
       THEN /\ _clip' = _clip
            /\ last' = Op("clip", << >>, << >>, TRUE)
       ELSE /\ _clip' = pathToLines(path)
            /\ last' = Op("clip", << >>, << >>, FALSE)
  /\ writes' = << >>
  /\ UNCHANGED << bitmap, ctxStyle, transform, ctxPath >>

\* ---- intersections
\* The rational n / d with d > 0, a number in sub-units: an intersection abscissa.
Rat(n, d) == IF d < 0 THEN [n |-> 0 - n, d |-> 0 - d] ELSE [n |-> n, d |-> d]
RatLess(a, b) == a.n * b.d < b.n * a.d
\* Math.floor of a rational, as a number
RatFloor(a) == (a.n \div (a.d * Sub)) * Sub

WellFormed(lines) ==
  \A k \in 1 .. Len(lines) : IsPoint(lines[k].start) /\ IsPoint(lines[k].end)

\* xlist.sort((a, b) => a - b), by insertion
RECURSIVE insertSorted(_, _)
insertSorted(xs, v) ==
  IF xs = << >> THEN << v >>
  ELSE IF RatLess(v, xs[Len(xs)])
         THEN Append(insertSorted(SubSeq(xs, 1, Len(xs) - 1), v), xs[Len(xs)])
         ELSE Append(xs, v)

\* the sorted xlist of calcSortedIntersections after the first n lines
RECURSIVE sortedIntersections(_, _, _)
sortedIntersections(lines, y, n) ==
  IF n = 0 THEN << >>
  ELSE LET A == lines[n].start
           B == lines[n].end
           sofar == sortedIntersections(lines, y, n - 1)
       IN IF (A.y < y /\ B.y >= y) \/ (B.y < y /\ A.y >= y)
            THEN insertSorted(sofar,
                   Rat(A.x * (B.y - A.y) + (y - A.y) * (B.x - A.x), B.y - A.y))
            ELSE sofar

calcSortedIntersections(lines, y) == sortedIntersections(lines, y, Len(lines))

\* ---- clip test
\* a test that accepts a point with any intersection to its left
pixelInsideClip_any(x, y) ==
  IF _clip = undefinedClip THEN TRUE
  ELSE LET ints == calcSortedIntersections(_clip, y)
           left == { k \in 1 .. Len(ints) : RatLess(ints[k], Rat(x, 1)) }
       IN Cardinality(left) # 0

pixelInsideClip(x, y) ==
  IF _clip = undefinedClip THEN TRUE
  ELSE LET ints == calcSortedIntersections(_clip, y)
           left == { k \in 1 .. Len(ints) : RatLess(ints[k], Rat(x, 1)) }
       IN Cardinality(left) % 2 # 0

\* pixelInsideClip dereferences a null or undefined end point: a TypeError
pixelInsideClipThrows == _clip # undefinedClip /\ ~WellFormed(_clip)

\* ---- compositor
\* a blend that weighs the destination by its alpha alone, without (1 - aa)
composite_unweighted(i, j, old_pixel, new_pixel) ==
  LET old_rgba == getBytesBigEndian(old_pixel)
      new_rgba == getBytesBigEndian(new_pixel)
      P == new_rgba[4] * _globalAlpha.v
      Q == old_rgba[4] * Sub
      chan(k) == (new_rgba[k] * P + old_rgba[k] * Q) \div (P + Q)
  IN IF _globalAlpha.kind # "finite" \/ P + Q = 0
       THEN fromBytesBigEndian(0, 0, 0, 0)
       ELSE fromBytesBigEndian(chan(1), chan(2), chan(3), Min(255, (P + Q) \div Sub))

\* With D = 255 * Sub, the source alpha times the global alpha is P / D and the
\* destination alpha is Q / D.  A channel of the result is the floor of the
\* quotient of compit times 255; 0 / 0 is NaN, which packs to the byte 0.
composite(i, j, old_pixel, new_pixel) ==
  LET old_rgba == getBytesBigEndian(old_pixel)
      new_rgba == getBytesBigEndian(new_pixel)
      D == 255 * Sub
      P == new_rgba[4] * _globalAlpha.v
      Q == old_rgba[4] * Sub
      den == P * D + Q * (D - P)
      chan(k) == (new_rgba[k] * P * D + old_rgba[k] * Q * (D - P)) \div den
      alpha == (P * P * D + Q * Q * (D - P)) \div (Sub * den)
  IN IF _globalAlpha.kind # "finite" \/ den = 0
       THEN fromBytesBigEndian(0, 0, 0, 0)
       ELSE fromBytesBigEndian(chan(1), chan(2), chan(3), alpha)

\* the divisor aa + ab * (1 - aa) of compit, times Sub * D * D: compit divides
\* by it without testing it, and 0 / 0 is NaN
compitDivisor(old_pixel, new_pixel) ==
  LET D == 255 * Sub
      P == getBytesBigEndian(new_pixel)[4] * _globalAlpha.v
      Q == getBytesBigEndian(old_pixel)[4] * Sub
  IN P * D + Q * (D - P)

calculateRGBA(x, y) == _fillColor
calculateRGBA_stroke(x, y) == _strokeColor

\* ---- painting
\* A paint operation runs on st = [b, w, threw]: the bitmap, the log of the
\* bitmap.setPixelRGBA calls so far, and whether an error has ended it.
\* One log entry: the coordinates and value written, the pixel read there just
\* before, and the source colour of the paint.  hung tells an operation that
\* ended in a loop that never ends from one that ended in an error.
Paint0 == [b |-> bitmap, w |-> << >>, threw |-> FALSE, hung |-> FALSE]

write(st, x, y, src, rgba) ==
  [st EXCEPT !.b = setPixelRGBA(st.b, x, y, rgba),
             !.w = Append(st.w, [x |-> x, y |-> y, old |-> getPixelRGBA(st.b, x, y),
                                 src |-> src, rgba |-> rgba])]

\* bitmap.setPixelRGBA(x, y, final_pixel) with the composite of the two pixels
composited(st, x, y, old_pixel, new_pixel) ==
  CHOOSE s \in { write(st, x, y, new_pixel, final_pixel) :
                   final_pixel \in { composite(x, y, old_pixel, new_pixel) } } : TRUE

\* the body of the three functions, on the colour new_pixel of the paint
paintPixel(st, x, y, col) ==
  CHOOSE s \in { composited(st, x, y, old_pixel, new_pixel) :
                   new_pixel \in { col }, old_pixel \in { getPixelRGBA(st.b, x, y) } } : TRUE

\* the pixel is painted: no error has ended the operation, and it is in the clip
paints(st, x, y) == ~st.threw /\ ~pixelInsideClipThrows /\ pixelInsideClip(x, y)

\* if (!this.pixelInsideClip(x, y)) return, or its TypeError
unpainted(st) ==
  IF ~st.threw /\ pixelInsideClipThrows THEN [st EXCEPT !.threw = TRUE] ELSE st

fillPixelWithColor(st, x, y, col) ==
  IF paints(st, x, y) THEN paintPixel(st, x, y, col) ELSE unpainted(st)

fillPixel(st, x, y) ==
  IF paints(st, x, y) THEN paintPixel(st, x, y, calculateRGBA(x, y)) ELSE unpainted(st)

strokePixel(st, x, y) ==
  IF paints(st, x, y) THEN paintPixel(st, x, y, calculateRGBA_stroke(x, y)) ELSE unpainted(st)

\* the number of iterations of for (i = from; i < to; i++)
Count1(from, to) == IF to > from THEN (to - from + Sub - 1) \div Sub ELSE 0

\* the state after a paint operation ended in st
Painted(name, args, st) ==
  /\ bitmap' = st.b
  /\ writes' = st.w
  /\ last' = Op(name, args, IF st.hung THEN << "no return" >> ELSE << >>,
                st.threw /\ ~st.hung)
  /\ UNCHANGED ctx

\* ---- fillRect
\* the first n iterations of the inner loop, j = y, y + 1, ...
RECURSIVE fillRectColumn(_, _, _, _)
fillRectColumn(st, i, y, n) ==
  IF n = 0 THEN st
  ELSE fillPixel(fillRectColumn(st, i, y, n - 1), i, y + Num(n - 1))

\* the first m iterations of the outer loop, i = x, x + 1, ...
RECURSIVE fillRectColumns(_, _, _, _, _)
fillRectColumns(st, x, y, h, m) ==
  IF m = 0 THEN st
  ELSE fillRectColumn(fillRectColumns(st, x, y, h, m - 1),
                      x + Num(m - 1), y, Count1(y, y + h))

fillRectOn(st, x, y, w, h) == fillRectColumns(st, x, y, h, Count1(x, x + w))

fillRect(x, y, w, h) == Painted("fillRect", << x, y, w, h >>, fillRectOn(Paint0, x, y, w, h))

\* ---- strokeRect
RECURSIVE strokeRectRows(_, _, _, _, _)
strokeRectRows(st, x, y, h, n) ==
  IF n = 0 THEN st
  ELSE LET i == x + Num(n - 1)
           s1 == strokeRectRows(st, x, y, h, n - 1)
           s2 == write(s1, i, y, _strokeColor, _strokeColor)
       IN write(s2, i, y + h, _strokeColor, _strokeColor)

RECURSIVE strokeRectColumns(_, _, _, _, _)
strokeRectColumns(st, x, y, w, n) ==
  IF n = 0 THEN st
  ELSE LET j == y + Num(n - 1)
           s1 == strokeRectColumns(st, x, y, w, n - 1)
           s2 == write(s1, x, j, _strokeColor, _strokeColor)
       IN write(s2, x + w, j, _strokeColor, _strokeColor)

strokeRect(x, y, w, h) ==
  Painted("strokeRect", << x, y, w, h >>,
          strokeRectColumns(strokeRectRows(Paint0, x, y, h, Count1(x, x + w)),
                            x, y, w, Count1(y, y + h)))

\* ---- drawImage
\* Math.floor(i / dw * sw) for a loop index i and numbers dw, sw
scaled(i, dw, sw) == floor((i * sw) \div dw)

RECURSIVE drawImageColumn(_, _, _, _, _, _, _, _, _, _)
drawImageColumn(st, img, ssx, sy, sh, dx, dy, dh, i, n) ==
  IF n = 0 THEN st
  ELSE LET j == Num(n - 1)
           ssy == sy + scaled(j, dh, sh)
           rgba == getPixelRGBA(img, ssx, ssy)
       IN write(drawImageColumn(st, img, ssx, sy, sh, dx, dy, dh, i, n - 1),
                dx + i, dy + j, rgba, rgba)

RECURSIVE drawImageColumns(_, _, _, _, _, _, _, _, _, _, _)
drawImageColumns(st, img, sx, sy, sw, sh, dx, dy, dw, dh, m) ==
  IF m = 0 THEN st
  ELSE LET i == Num(m - 1)
           ssx == scaled(i, dw, sw) + sx
       IN drawImageColumn(drawImageColumns(st, img, sx, sy, sw, sh, dx, dy, dw, dh, m - 1),
                          img, ssx, sy, sh, dx, dy, dh, i, Count1(0, dh))

drawImage9(img, sx, sy, sw, sh, dx, dy, dw, dh) ==
  Painted("drawImage", << sx, sy, sw, sh, dx, dy, dw, dh >>,
          drawImageColumns(Paint0, img, sx, sy, sw, sh, dx, dy, dw, dh, Count1(0, dw)))

\* the two argument form drawImage(bitmap, dx, dy)
drawImage(img, dx, dy) ==
  drawImage9(img, 0, 0, img.width, img.height, dx, dy, img.width, img.height)

\* ---- fill
RECURSIVE minY(_, _)
minY(lines, n) ==
  IF n = 1 THEN Min(lines[1].start.y, lines[1].end.y)
  ELSE Min(minY(lines, n - 1), Min(lines[n].start.y, lines[n].end.y))

RECURSIVE maxY(_, _)
maxY(lines, n) ==
  IF n = 1 THEN Max(lines[1].start.y, lines[1].end.y)
  ELSE Max(maxY(lines, n - 1), Max(lines[n].start.y, lines[n].end.y))

\* The vertical bounds of calcMinimumBounds on a non-empty list of well-formed
\* lines.  y2 starts from Number.MIN_VALUE, the least positive number: y2 - 1
\* is then -1, as if y2 started from 0.
calcMinimumBounds(lines) ==
  [y |-> minY(lines, Len(lines)), y2 |-> Max(0, maxY(lines, Len(lines)))]

\* the number of iterations of for (j = from; j >= to; j--)
CountDown(from, to) == IF from >= to THEN ((from - to) \div Sub) + 1 ELSE 0

\* the alpha byte (1 - fract(v)) * 255 and fract(v) * 255 of an intersection v,
\* truncated by the bitwise or
fractNum(v) == v.n - (v.n \div (v.d * Sub)) * (v.d * Sub)
startAlpha(v) == (255 * (v.d * Sub - fractNum(v))) \div (v.d * Sub)
endAlpha(v) == (255 * fractNum(v)) \div (v.d * Sub)

\* uint32.or(uint32.and(col, 0xFFFFFF00), a)
withAlpha(col, a) ==
  LET c == getBytesBigEndian(col)
  IN fromBytesBigEndian(c[1], c[2], c[3], a)

\* fill_noaa: the first n pixels ii = start, start + 1, ... of a span
RECURSIVE spanNoaa(_, _, _, _)
spanNoaa(st, start, j, n) ==
  IF n = 0 THEN st
  ELSE fillPixel(spanNoaa(st, start, j, n - 1), start + Num(n - 1), j)

\* fill_aa: the first n pixels of the span start .. end of the pair (v1, v2)
RECURSIVE spanAa(_, _, _, _, _, _, _)
spanAa(st, v1, v2, start, end, j, n) ==
  IF n = 0 THEN st
  ELSE LET ii == start + Num(n - 1)
           s1 == spanAa(st, v1, v2, start, end, j, n - 1)
       IN IF ii = start
            THEN fillPixelWithColor(s1, ii, j, withAlpha(_fillColor, startAlpha(v1)))
            ELSE IF ii = end
              THEN fillPixelWithColor(s1, ii, j, withAlpha(_fillColor, endAlpha(v2)))
              ELSE fillPixelWithColor(s1, ii, j, _fillColor)

\* the first k pairs ints[i], ints[i + 1] of a scanline; an odd intersection
\* left over has no end (Math.floor(undefined) is NaN) and paints nothing
RECURSIVE scanline(_, _, _, _, _)
scanline(st, aa, ints, j, k) ==
  IF k = 0 THEN st
  ELSE LET s1 == scanline(st, aa, ints, j, k - 1)
       IN IF 2 * k > Len(ints) THEN s1
          ELSE LET v1 == ints[2 * k - 1]
                   v2 == ints[2 * k]
                   start == RatFloor(v1)
                   end == RatFloor(v2)
                   n == CountDown(end, start)
               IN IF aa THEN spanAa(s1, v1, v2, start, end, j, n)
                        ELSE spanNoaa(s1, start, j, n)

\* the first r scanlines j = startY, startY - 1, ...
RECURSIVE scanlines(_, _, _, _, _)
scanlines(st, aa, lines, startY, r) ==
  IF r = 0 THEN st
  ELSE LET j == startY - Num(r - 1)
           ints == calcSortedIntersections(lines, j)
       IN scanline(scanlines(st, aa, lines, startY, r - 1), aa, ints, j,
                   (Len(ints) + 1) \div 2)

\* fill_aa and fill_noaa on the lines of the path; calcMinimumBounds throws a
\* TypeError on a line with a null or undefined end
fillLines(st, aa, lines) ==
  IF lines = << >> THEN st
  ELSE IF ~WellFormed(lines) THEN [st EXCEPT !.threw = TRUE]
  ELSE LET bounds == calcMinimumBounds(lines)
           startY == IF aa THEN Min(bounds.y2 - One, st.b.height) ELSE bounds.y2 - One
           endY == IF aa THEN Max(bounds.y, 0) ELSE bounds.y
       IN scanlines(st, aa, lines, startY, CountDown(startY, endY))

fill_aa(st) == fillLines(st, TRUE, pathToLines(path))
fill_noaa(st) == fillLines(st, FALSE, pathToLines(path))

fill ==
  Painted("fill", << >>,
          IF pathToLinesThrows(path) THEN [Paint0 EXCEPT !.threw = TRUE]
          ELSE IF imageSmoothingEnabled THEN fill_aa(Paint0) ELSE fill_noaa(Paint0))

\* ---- stroke, anti-aliasing off
\* x0 += sx on doubles that hold integers: from 2^54 on a double holds every
\* fourth integer or fewer, and x0 + 1 and x0 - 1 round back to x0.  Coarse
\* stands for 2^54 in pixels of the model.
addStep(x0, sx) == IF Abs(x0) >= Coarse THEN x0 ELSE x0 + sx

\* the loop of drawLine_noaa from (x0, y0), integers, with twice its err.  The
\* break needs x0 === x1 and y0 === y1: when a coordinate differs from its
\* target and its steps round back, the loop paints for ever.
RECURSIVE bresenham(_, _, _, _, _, _, _, _, _, _)
bresenham(st, x0, y0, x1, y1, dx, dy, sx, sy, err2) ==
  LET s1 == strokePixel(st, Num(x0), Num(y0))
      stepx == err2 > 0 - 2 * dx
      stepy == err2 < 2 * dy
  IN IF s1.threw \/ (x0 = x1 /\ y0 = y1) THEN s1
     ELSE IF (x0 # x1 /\ addStep(x0, sx) = x0) \/ (y0 # y1 /\ addStep(y0, sy) = y0)
       THEN [s1 EXCEPT !.threw = TRUE, !.hung = TRUE]
     ELSE bresenham(s1, IF stepx THEN addStep(x0, sx) ELSE x0,
                    IF stepy THEN addStep(y0, sy) ELSE y0,
                    x1, y1, dx, dy, sx, sy,
                    err2 - (IF stepx THEN 2 * dy ELSE 0) + (IF stepy THEN 2 * dx ELSE 0))

drawLine_noaa(st, line) ==
  IF st.threw THEN st
  ELSE IF ~(IsPoint(line.start) /\ IsPoint(line.end)) THEN [st EXCEPT !.threw = TRUE]
  ELSE LET x0 == ToInt(floor(line.start.x))
           y0 == ToInt(floor(line.start.y))
           x1 == ToInt(floor(line.end.x))
           y1 == ToInt(floor(line.end.y))
           dx == Abs(x1 - x0)
           dy == Abs(y1 - y0)
           sx == IF x0 < x1 THEN 1 ELSE 0 - 1
           sy == IF y0 < y1 THEN 1 ELSE 0 - 1
       IN bresenham(st, x0, y0, x1, y1, dx, dy, sx, sy, IF dx > dy THEN dx ELSE 0 - dy)

\* ---- stroke, anti-aliasing on
\* drawLine_aa works with width = (lineWidth + 1) / 2, here the quotient
\* aaWidthN / aaWidthD, and with ed = sqrt(D); both are compared exactly.
aaWidthN == _lineWidth.v + Sub
aaWidthD == 2 * Sub

\* e < ed * width
lessEdWidth(e, D) ==
  CASE _lineWidth.kind = "NaN" -> FALSE
    [] _lineWidth.kind = "Infinity" -> TRUE
    [] _lineWidth.kind = "-Infinity" -> FALSE
    [] OTHER ->
         IF aaWidthN > 0
           THEN e <= 0 \/ e * e * aaWidthD * aaWidthD < D * aaWidthN * aaWidthN
         ELSE IF aaWidthN = 0 THEN e < 0
         ELSE e < 0 /\ e * e * aaWidthD * aaWidthD > D * aaWidthN * aaWidthN

\* ~~Math.max(0, 255 * (Math.abs(e) / ed - width + 1)): the largest k with
\* (k + 255 * (width - 1)) * ed <= 255 * |e|, and 0 when the width is not finite.
\* For a line width of at least 1 it is at most 255.
aaAlpha(e, D) ==
  IF _lineWidth.kind # "finite" THEN 0
  ELSE LET B == 255 * Abs(e) * aaWidthD
           A(k) == k * aaWidthD + 255 * (aaWidthN - aaWidthD)
           ks == { k \in 0 .. 255 : A(k) <= 0 \/ A(k) * A(k) * D <= B * B }
       IN IF ks = { } THEN 0 ELSE Cardinality(ks) - 1

\* the stroke colour with its alpha scaled by 255 - alpha
aaColor(e, D) ==
  LET c == getBytesBigEndian(_strokeColor)
      a2 == 255 - aaAlpha(e, D)
  IN fromBytesBigEndian(c[1], c[2], c[3], (c[4] * a2) \div 255)

\* fillPixelWithColor(x, y, col) with the anti-aliased stroke colour col
aaPixel(st, x, y, e, D) ==
  CHOOSE s \in { fillPixelWithColor(st, x, y, col) : col \in { aaColor(e, D) } } : TRUE

\* the inner loop over y2 at column x0; with an infinite width it does not
\* end, and the call is cut off after MaxLineSteps pixels as not returning
RECURSIVE aaSpanY(_, _, _, _, _, _)
aaSpanY(st, L, x0, y2, e2, fuel) ==
  IF st.threw \/ ~(lessEdWidth(e2, L.D) /\ (L.y1 # y2 \/ L.dx > L.dy)) THEN st
  ELSE IF fuel = 0 THEN [st EXCEPT !.threw = TRUE]
  ELSE aaSpanY(aaPixel(st, Num(x0), Num(y2 + L.sy), e2, L.D),
               L, x0, y2 + L.sy, e2 + L.dx, fuel - 1)

\* the inner loop over x2 at row y0
RECURSIVE aaSpanX(_, _, _, _, _, _)
aaSpanX(st, L, x2, y0, e2, fuel) ==
  IF st.threw \/ ~(lessEdWidth(e2, L.D) /\ (L.x1 # x2 \/ L.dx < L.dy)) THEN st
  ELSE IF fuel = 0 THEN [st EXCEPT !.threw = TRUE]
  ELSE aaSpanX(aaPixel(st, Num(x2 + L.sx), Num(y0), e2, L.D),
               L, x2 + L.sx, y0, e2 + L.dy, fuel - 1)

\* the outer loop of drawLine_aa from (x0, y0) with error term err
RECURSIVE aaLine(_, _, _, _, _, _)
aaLine(st, L, x0, y0, err, fuel) ==
  LET s1 == aaPixel(st, Num(x0), Num(y0), err - L.dx + L.dy, L.D)
      stepx == 2 * err >= 0 - L.dx
      stepy == 2 * err <= L.dy
      s2 == IF stepx THEN aaSpanY(s1, L, x0, y0, err + L.dy, MaxLineSteps) ELSE s1
      s3 == IF stepy THEN aaSpanX(s2, L, x0, y0, L.dx - err, MaxLineSteps) ELSE s2
      goeson == /\ ~st.threw
                /\ ~(s2.threw \/ (stepx /\ x0 = L.x1))
                /\ ~(s3.threw \/ (stepy /\ y0 = L.y1))
  IN IF goeson /\ fuel # 0
       THEN aaLine(s3, L, IF stepx THEN x0 + L.sx ELSE x0, IF stepy THEN y0 + L.sy ELSE y0,
                   err - (IF stepx THEN L.dy ELSE 0) + (IF stepy THEN L.dx ELSE 0), fuel - 1)
     ELSE IF st.threw THEN st
     ELSE IF s2.threw \/ (stepx /\ x0 = L.x1) THEN s2
     ELSE IF s3.threw \/ (stepy /\ y0 = L.y1) THEN s3
     ELSE [s3 EXCEPT !.threw = TRUE]

drawLine_aa(st, line) ==
  IF st.threw THEN st
  ELSE IF ~(IsPoint(line.start) /\ IsPoint(line.end)) THEN [st EXCEPT !.threw = TRUE]
  ELSE LET x0 == ToInt(floor(line.start.x))
           y0 == ToInt(floor(line.start.y))
           x1 == ToInt(floor(line.end.x))
           y1 == ToInt(floor(line.end.y))
           dx == Abs(x1 - x0)
           dy == Abs(y1 - y0)
           L == [x1 |-> x1, y1 |-> y1, dx |-> dx, dy |-> dy,
                 sx |-> IF x0 < x1 THEN 1 ELSE 0 - 1,
                 sy |-> IF y0 < y1 THEN 1 ELSE 0 - 1,
                 D |-> IF dx + dy = 0 THEN 1 ELSE dx * dx + dy * dy]
       IN aaLine(st, L, x0, y0, dx - dy, MaxLineSteps)

drawLine(st, line) ==
  IF imageSmoothingEnabled THEN drawLine_aa(st, line) ELSE drawLine_noaa(st, line)

\* ---- stroke
\* the state after the first n lines, as the one element of a set
RECURSIVE linesDrawn(_, _, _)
linesDrawn(st, lines, n) ==
  IF n = 0 THEN { st }
  ELSE { drawLine(s, lines[n]) : s \in linesDrawn(st, lines, n - 1) }

drawLines(st, lines, n) == CHOOSE s \in linesDrawn(st, lines, n) : TRUE

stroke ==
  Painted("stroke", << >>,
          IF pathToLinesThrows(path) THEN [Paint0 EXCEPT !.threw = TRUE]
          ELSE drawLines(Paint0, pathToLines(path), Len(pathToLines(path))))

\* ------------------------------------------------------------------ text.ts
\* _fonts[family] is set
HasFont(family) == \E k \in 1 .. Len(_fonts) : _fonts[k].family = family

\* _fonts[family] = {binary, family, weight, style, variant, loaded, font, load}
registerFont(binaryPath, family, weight, style, variant) ==
  LET ref == Len(fontObjects) + 1
      entry == [family |-> family, ref |-> ref]
  IN /\ fontObjects' = Append(fontObjects,
                           [binary |-> binaryPath, family |-> family, weight |-> weight,
                            style |-> style, variant |-> variant,
                            loaded |-> FALSE, font |-> null])
     /\ _fonts' = IF HasFont(family)
                    THEN [k \in 1 .. Len(_fonts) |->
                            IF _fonts[k].family = family THEN entry ELSE _fonts[k]]
                    ELSE Append(_fonts, entry)
     /\ last' = Op("registerFont", << binaryPath, family >>, << ref >>, FALSE)
     /\ writes' = << >>
     /\ UNCHANGED << bitmap, ctx, loads, console >>

\* load(cb) reading the file whether or not the font is loaded
load_again(self, cb) ==
  /\ loads' = Append(loads, [self |-> self, cb |-> cb, state |-> "reading", invoked |-> 0])
  /\ last' = Op("load", << self, cb >>, << >>, FALSE)
  /\ writes' = << >>
  /\ UNCHANGED << bitmap, ctx, _fonts, fontObjects, console >>

\* font.load(cb) on the font object self; cb is TRUE when a callback is given.
\* A font that is not loaded hands its file to loadFont and returns.
load(self, cb) ==
  /\ loads' = Append(loads,
                IF fontObjects[self].loaded
                  THEN [self |-> self, cb |-> cb, state |-> "cached",
                        invoked |-> IF cb THEN 1 ELSE 0]
                  ELSE [self |-> self, cb |-> cb, state |-> "reading", invoked |-> 0])
  /\ last' = Op("load", << self, cb >>, << >>, FALSE)
  /\ writes' = << >>
  /\ UNCHANGED << bitmap, ctx, _fonts, fontObjects, console >>

\* The callback that load gave to loadFont, run for the k-th call of load when
\* its file has been read (err FALSE, with the parsed font) or not (err TRUE).
loadFont_callback(k, err) ==
  /\ IF err
       THEN /\ loads' = [loads EXCEPT ![k].state = "failed"]
            /\ fontObjects' = fontObjects
            /\ last' = Op("loadFont callback", << k >>, << "Could not load font" >>, TRUE)
       ELSE /\ loads' = [loads EXCEPT ![k].state = "loaded",
                                      ![k].invoked = @ + (IF loads[k].cb THEN 1 ELSE 0)]
            /\ fontObjects' =
                 [fontObjects EXCEPT ![loads[k].self].loaded = TRUE,
                                     ![loads[k].self].font =
                                        [file |-> fontObjects[loads[k].self].binary,
                                         parsed |-> k]]
            /\ last' = Op("loadFont callback", << k >>, << >>, FALSE)
  /\ writes' = << >>
  /\ UNCHANGED << bitmap, ctx, _fonts, console >>

\* ---- the fonts that the files hold, as opentype.js parses them
\* unitsPerEm, ascender, descender and the advance width of every glyph
FontUnits(file) == [unitsPerEm |-> 12, ascender |-> 2, descender |-> 0,
                    advanceWidth |-> IF file = "a.ttf" THEN 2 ELSE 3]

\* font.getPath(text, x, y, size).commands: every glyph is a triangle of the
\* width of its advance, closed by Z; b.ttf ends its outline with an open
\* contour
RECURSIVE getPath(_, _, _, _, _)
getPath(file, text, x, y, size) ==
  IF text = << >> THEN << >>
  ELSE LET u == FontUnits(file)
           w == (u.advanceWidth * size * One) \div u.unitsPerEm
           h == (u.ascender * size * One) \div u.unitsPerEm
       IN << [type |-> "M", x |-> x, y |-> y],
             [type |-> "L", x |-> x + w, y |-> y],
             [type |-> "L", x |-> x, y |-> y - h],
             [type |-> "Z"] >>
          \o getPath(file, Tail(text), x + w, y, size)
          \o (IF file = "b.ttf" /\ Len(text) = 1
                THEN << [type |-> "M", x |-> x, y |-> y],
                        [type |-> "L", x |-> x + w, y |-> y] >>
                ELSE << >>)

\* ---- findFont: the font of that family, or that of the first key of _fonts,
\* or undefined
findFont(family) ==
  IF HasFont(family)
    THEN fontObjects[(CHOOSE e \in { _fonts[k] : k \in 1 .. Len(_fonts) } :
                        e.family = family).ref]
    ELSE IF Len(_fonts) > 0 THEN fontObjects[_fonts[1].ref] ELSE undefined

\* ---- measureText(ctx, text): [ret, warned, threw].  font.font is read of an
\* undefined font, and stringToGlyphs of a null handle: a TypeError.
measureText(text) ==
  LET font == findFont(_font.family)
      warned == IF font = undefined THEN << "WARNING. Can't find font family " >>
                ELSE << >>
  IN IF font = undefined \/ font.font = null
       THEN [ret |-> << >>, warned |-> warned, threw |-> TRUE]
       ELSE LET u == FontUnits(font.font.file)
                fsize == _font.size
                advance == Len(text) * u.advanceWidth
            IN [ret |-> [width |-> (advance * fsize * One) \div u.unitsPerEm,
                         emHeightAscent |-> (u.ascender * fsize * One) \div u.unitsPerEm,
                         emHeightDescent |-> (u.descender * fsize * One) \div u.unitsPerEm],
                warned |-> warned, threw |-> FALSE]

\* ---- processTextPath
\* case 'Z' on the closed path: fill() or stroke(), then beginPath() unless
\* the paint has thrown
paintContour(st, closed, filled) ==
  IF pathToLinesThrows(closed) THEN [st EXCEPT !.threw = TRUE]
  ELSE IF filled THEN fillLines(st, imageSmoothingEnabled, pathToLines(closed))
  ELSE drawLines(st, pathToLines(closed), Len(pathToLines(closed)))

\* ctx.closePath() on the path of t: a line to the start of the sub-path
closedPath(t) == Append(t.path, Cmd(LINE, << t.pathstart >>))

\* case 'Z' with the beginPath() after the paint left out
contourPainted_kept(closed, st) ==
  [st |-> st, path |-> closed, pathstart |-> closed[Len(closed)].pts[1]]

contourPainted(closed, st) ==
  [st |-> st, path |-> IF st.threw THEN closed ELSE << >>,
   pathstart |-> closed[Len(closed)].pts[1]]

\* the switch on one command of the outline, on t = [st, path, pathstart]: st
\* the paint state, path and pathstart those of the context.  filled is the
\* parameter fill.  A command of another type matches no case.
replayCommand(t, cmd, filled) ==
  IF t.st.threw THEN t
  ELSE CASE cmd.type = "M" ->
              [t EXCEPT !.path = Append(@, Cmd(MOVE,
                           << transformPoint(transform, Point(cmd.x, cmd.y)) >>)),
                        !.pathstart = transformPoint(transform, Point(cmd.x, cmd.y))]
         [] cmd.type = "Q" ->
              [t EXCEPT !.path = Append(@, Cmd(QUADRATIC_CURVE,
                           << transformPoint(transform, Point(cmd.x1, cmd.y1)),
                              transformPoint(transform, Point(cmd.x, cmd.y)) >>))]
         [] cmd.type = "L" ->
              [t EXCEPT !.path = Append(@, Cmd(LINE,
                           << transformPoint(transform, Point(cmd.x, cmd.y)) >>))]
         [] cmd.type = "Z" ->
              contourPainted(closedPath(t), paintContour(t.st, closedPath(t), filled))
         [] OTHER -> t

\* the forEach over the first n commands of the outline: the state after
\* them, as the one element of a set
RECURSIVE replayed(_, _, _, _)
replayed(t, commands, filled, n) ==
  IF n = 0 THEN { t }
  ELSE { replayCommand(s, commands[n], filled) : s \in replayed(t, commands, filled, n - 1) }

replay(t, commands, filled, n) == CHOOSE s \in replayed(t, commands, filled, n) : TRUE

\* x and y moved by the alignment
alignX(x, hAlign, metrics) ==
  CASE hAlign \in { "end", "right" } -> x - metrics.width
    [] hAlign = "center" -> x - metrics.width \div 2
    [] OTHER -> x

alignY(y, vAlign, metrics) ==
  CASE vAlign = "top" -> y + metrics.emHeightAscent
    [] vAlign = "middle" ->
         y + metrics.emHeightAscent \div 2 + metrics.emHeightDescent \div 2
    [] vAlign = "bottom" -> y + metrics.emHeightDescent
    [] OTHER -> y

\* the outline of the text in the font found, replayed from an empty path
outlineReplayed(file, text, x, y, filled) ==
  replay([st |-> Paint0, path |-> << >>, pathstart |-> pathstart],
         getPath(file, text, x, y, _font.size), filled,
         Len(getPath(file, text, x, y, _font.size)))

\* the context after processTextPath: m is what measureText returned, t the
\* state after the last command of the outline
textPainted(name, args, warned, m, t) ==
  /\ console' = console \o warned \o m.warned
  /\ IF m.threw
       THEN /\ last' = Op(name, args, << "TypeError" >>, TRUE)
            /\ writes' = << >>
            /\ UNCHANGED << bitmap, path, pathstart >>
       ELSE /\ last' = Op(name, args, IF t.st.hung THEN << "no return" >> ELSE << >>,
                          t.st.threw /\ ~t.st.hung)
            /\ bitmap' = t.st.b
            /\ writes' = t.st.w
            /\ path' = t.path
            /\ pathstart' = t.pathstart
  /\ UNCHANGED << ctxStyle, transform, _clip, _fonts, fontObjects, loads >>

processTextPath(name, text, x, y, filled, hAlign, vAlign) ==
  textPainted(name, << text, x, y >>,
              IF findFont(_font.family) = undefined THEN << "Font missing" >> ELSE << >>,
              measureText(text),
              outlineReplayed(findFont(_font.family).font.file, text,
                              alignX(x, hAlign, measureText(text).ret),
                              alignY(y, vAlign, measureText(text).ret), filled))

fillText(text, x, y) == processTextPath("fillText", text, x, y, TRUE, textAlign, textBaseline)

strokeText(text, x, y) ==
  processTextPath("strokeText", text, x, y, FALSE, textAlign, textBaseline)

\* Context.measureText(string)
ctx_measureText(string) ==
  LET m == measureText(string)
  IN /\ console' = console \o m.warned
     /\ last' = Op("measureText", << string >>,
                   IF m.threw THEN << "TypeError" >> ELSE m.ret, m.threw)
     /\ writes' = << >>
     /\ UNCHANGED << bitmap, ctx, _fonts, fontObjects, loads >>

\* =========================================================================
\* Specifications
\* =========================================================================
\* one more operation of a run of at most max operations
\* the operations of Context other than the text operations, and those of
\* Bitmap, do not touch the fonts
Count(max) == nops < max /\ nops' = nops + 1 /\ UNCHANGED textModule
\* one more operation of a run that registers, loads or uses fonts
TextStep(max) == nops < max /\ nops' = nops + 1 /\ UNCHANGED << snapshots, script >>
Step(max) == Count(max) /\ UNCHANGED << snapshots, script >>

\* ---- SpecBitmap: the Bitmap interface alone
\* coordinates from half a pixel left of / above the buffer to one past it
XInputs == { 0 - 1, 0, Num(BitmapW) - 1, Num(BitmapW) }
YInputs == { 0 - 1, 0, Num(BitmapH) - 1, Num(BitmapH) }
Palette == { transparent, red, blue }
ByteInputs == { << 255, 0, 0, 255 >>, << 0, 255, 0, 128 >> }

NoScript == [pc |-> "none"]

Init == NewContext(NewBitmap(BitmapW, BitmapH)) /\ script = NoScript

Bitmap_setPixelRGBA ==
  /\ Count(MaxBitmapOps)
  /\ \E x \in XInputs, y \in YInputs, rgba \in Palette :
       /\ bitmap' = setPixelRGBA(bitmap, x, y, rgba)
       /\ last' = Op("setPixelRGBA", << x, y, rgba >>, << >>, FALSE)
  /\ UNCHANGED << ctx, writes, snapshots, script >>

Bitmap_setPixelRGBA_i ==
  /\ Count(MaxBitmapOps)
  /\ \E x \in XInputs, y \in YInputs, c \in ByteInputs :
       /\ bitmap' = setPixelRGBA_i(bitmap, x, y, c[1], c[2], c[3], c[4])
       /\ last' = Op("setPixelRGBA_i", << x, y, c >>, << >>, FALSE)
  /\ UNCHANGED << ctx, writes, snapshots, script >>

Bitmap_getPixelRGBA ==
  /\ Count(MaxBitmapOps)
  /\ \E x \in XInputs, y \in YInputs :
       last' = Op("getPixelRGBA", << x, y >>, getPixelRGBA(bitmap, x, y), FALSE)
  /\ UNCHANGED << bitmap, ctx, writes, snapshots, script >>

BitmapNext ==
  \/ Bitmap_setPixelRGBA
  \/ Bitmap_setPixelRGBA_i
  \/ Bitmap_getPixelRGBA

SpecBitmap == Init /\ [][BitmapNext]_vars

\* ---- SpecPath: the transform and the path under construction
PathPoints == { Point(One, 0), Point(1, One) }

Path_save == Step(MaxPathOps) /\ save
Path_restore == Step(MaxPathOps) /\ restore
Path_translate ==
  Step(MaxPathOps) /\ \E d \in { << One, 0 >>, << 0 - 1, One >> } : translate(d[1], d[2])
Path_rotate == Step(MaxPathOps) /\ rotate(1)
Path_scale == Step(MaxPathOps) /\ scale(Num(2), Num(0 - 1))
Path_beginPath == Step(MaxPathOps) /\ beginPath
Path_moveTo == Step(MaxPathOps) /\ \E pt \in PathPoints : moveTo(pt.x, pt.y)
Path_lineTo == Step(MaxPathOps) /\ \E pt \in PathPoints : lineTo(pt.x, pt.y)
Path_quadraticCurveTo ==
  Step(MaxPathOps) /\ \E pt \in PathPoints : quadraticCurveTo(0, One, pt.x, pt.y)
Path_bezierCurveTo ==
  Step(MaxPathOps) /\ \E pt \in PathPoints : bezierCurveTo(0, One, One, One, pt.x, pt.y)
Path_closePath == Step(MaxPathOps) /\ closePath

PathNext ==
  \/ Path_save
  \/ Path_restore
  \/ Path_translate
  \/ Path_rotate
  \/ Path_scale
  \/ Path_beginPath
  \/ Path_moveTo
  \/ Path_lineTo
  \/ Path_quadraticCurveTo
  \/ Path_bezierCurveTo
  \/ Path_closePath

SpecPath == Init /\ [][PathNext]_vars

\* ---- SpecStyle: the style fields, save() and restore()
LineWidthInputs == { Fin(Num(2)), Fin(1), Fin(0), Fin(0 - One), Infinity, NaN }
GlobalAlphaInputs == { Fin(0 - 1), Fin(1), Fin(Num(2)), Infinity, NegInfinity, NaN }

Style_save ==
  /\ Count(MaxStyleOps)
  /\ save
  /\ snapshots' = [stack |-> Append(snapshots.stack, << ctxStyle, ctxPath, _clip >>),
                   popped |-> << >>]
  /\ UNCHANGED script

Style_restore ==
  /\ Count(MaxStyleOps)
  /\ restore
  /\ snapshots' =
       IF Len(snapshots.stack) > 0
         THEN [stack |-> SubSeq(snapshots.stack, 1, Len(snapshots.stack) - 1),
               popped |-> << snapshots.stack[Len(snapshots.stack)] >>]
         ELSE [snapshots EXCEPT !.popped = << >>]
  /\ UNCHANGED script

Style_translate == Step(MaxStyleOps) /\ translate(One, 0)
Style_fillStyle == Step(MaxStyleOps) /\ \E v \in { "red", "#00ff0080" } : set_fillStyle(v)
Style_strokeStyle == Step(MaxStyleOps) /\ set_strokeStyle("blue")
Style_lineWidth == Step(MaxStyleOps) /\ \E v \in LineWidthInputs : set_lineWidth(v)
Style_globalAlpha == Step(MaxStyleOps) /\ \E v \in GlobalAlphaInputs : set_globalAlpha(v)
Style_imageSmoothingEnabled ==
  Step(MaxStyleOps) /\ \E v \in BOOLEAN : set_imageSmoothingEnabled(v)
Style_font == Step(MaxStyleOps) /\ set_font(20, "serif")
Style_textAlign == Step(MaxStyleOps) /\ set_textAlign("center")
Style_textBaseline == Step(MaxStyleOps) /\ set_textBaseline("top")
Style_beginPath == Step(MaxStyleOps) /\ beginPath
Style_moveTo == Step(MaxStyleOps) /\ moveTo(One, 0)
Style_lineTo == Step(MaxStyleOps) /\ lineTo(1, One)
Style_clip == Step(MaxStyleOps) /\ clip

StyleNext ==
  \/ Style_save
  \/ Style_restore
  \/ Style_translate
  \/ Style_fillStyle
  \/ Style_strokeStyle
  \/ Style_lineWidth
  \/ Style_globalAlpha
  \/ Style_imageSmoothingEnabled
  \/ Style_font
  \/ Style_textAlign
  \/ Style_textBaseline
  \/ Style_beginPath
  \/ Style_moveTo
  \/ Style_lineTo
  \/ Style_clip

SpecStyle == Init /\ [][StyleNext]_vars

\* ---- SpecPaint: clipping and the paint operations
\* a 2 x 1 image: an opaque red pixel and a half transparent green one
Stamp == setPixelRGBA(setPixelRGBA(NewBitmap(2, 1), 0, 0, red), One, 0, << 255, 128 >>)

Paint_globalAlpha == Step(MaxPaintOps) /\ set_globalAlpha(Fin(1))
Paint_fillStyle == Step(MaxPaintOps) /\ \E v \in { "red", "#00ff0080" } : set_fillStyle(v)
Paint_strokeStyle == Step(MaxPaintOps) /\ set_strokeStyle("blue")
Paint_imageSmoothingEnabled == Step(MaxPaintOps) /\ set_imageSmoothingEnabled(FALSE)
Paint_beginPath == Step(MaxPaintOps) /\ beginPath
Paint_moveTo == Step(MaxPaintOps) /\ moveTo(0, 0)
Paint_lineTo ==
  Step(MaxPaintOps) /\ \E pt \in { Point(Num(2), 0), Point(Num(2), Num(2)) } : lineTo(pt.x, pt.y)
Paint_closePath == Step(MaxPaintOps) /\ closePath
Paint_clip == Step(MaxPaintOps) /\ clip
Paint_fillRect ==
  Step(MaxPaintOps) /\ \E x \in { 0, One } : fillRect(x, 0, Num(2), One)
Paint_strokeRect == Step(MaxPaintOps) /\ strokeRect(One, 0, One, One)
Paint_drawImage == Step(MaxPaintOps) /\ \E dx \in { 0, One } : drawImage(Stamp, dx, 0)
Paint_fill == Step(MaxPaintOps) /\ fill
Paint_stroke == Step(MaxPaintOps) /\ stroke

PaintNext ==
  \/ Paint_globalAlpha
  \/ Paint_fillStyle
  \/ Paint_strokeStyle
  \/ Paint_imageSmoothingEnabled
  \/ Paint_beginPath
  \/ Paint_moveTo
  \/ Paint_lineTo
  \/ Paint_closePath
  \/ Paint_clip
  \/ Paint_fillRect
  \/ Paint_strokeRect
  \/ Paint_drawImage
  \/ Paint_fill
  \/ Paint_stroke

SpecPaint == Init /\ [][PaintNext]_vars

\* ---- SpecRect: a caller that fills one rectangle on a new bitmap, either as
\* the path moveTo, lineTo x 4, closePath and fill(), or with fillRect()
RectInputs ==
  [x : { 0 - One, 0, One }, y : { 0 - One, 0, One },
   w : { Num(n) : n \in 1 .. MaxRect }, h : { Num(n) : n \in 1 .. MaxRect },
   c : { "red", "blue" }, aa : BOOLEAN, how : { "path", "fillRect" }]

RectInit ==
  /\ NewContext(NewBitmap(BitmapW, BitmapH))
  /\ \E r \in RectInputs : script = [pc |-> "fillStyle", r |-> r]

At(pc) == script.pc = pc
Goto(pc) == Count(MaxRectOps) /\ script' = [script EXCEPT !.pc = pc] /\ UNCHANGED snapshots

Rect_fillStyle ==
  /\ At("fillStyle")
  /\ set_fillStyle(script.r.c)
  /\ Goto(IF script.r.how = "path" THEN "imageSmoothingEnabled" ELSE "fillRect")

Rect_imageSmoothingEnabled ==
  /\ At("imageSmoothingEnabled")
  /\ set_imageSmoothingEnabled(script.r.aa)
  /\ Goto("beginPath")

Rect_beginPath == At("beginPath") /\ beginPath /\ Goto("moveTo")

Rect_moveTo == At("moveTo") /\ moveTo(script.r.x, script.r.y) /\ Goto("lineTo1")

Rect_lineTo ==
  LET r == script.r
  IN \/ At("lineTo1") /\ lineTo(r.x + r.w, r.y) /\ Goto("lineTo2")
     \/ At("lineTo2") /\ lineTo(r.x + r.w, r.y + r.h) /\ Goto("lineTo3")
     \/ At("lineTo3") /\ lineTo(r.x, r.y + r.h) /\ Goto("lineTo4")
     \/ At("lineTo4") /\ lineTo(r.x, r.y) /\ Goto("closePath")

Rect_closePath == At("closePath") /\ closePath /\ Goto("fill")

Rect_fill == At("fill") /\ fill /\ Goto("done")

Rect_fillRect ==
  /\ At("fillRect")
  /\ fillRect(script.r.x, script.r.y, script.r.w, script.r.h)
  /\ Goto("done")

RectNext ==
  \/ Rect_fillStyle
  \/ Rect_imageSmoothingEnabled
  \/ Rect_beginPath
  \/ Rect_moveTo
  \/ Rect_lineTo
  \/ Rect_closePath
  \/ Rect_fill
  \/ Rect_fillRect

SpecRect == RectInit /\ [][RectNext]_vars

\* ---- SpecComposite: composite(old, new) on chosen colours, after an optional
\* assignment to globalAlpha
CompositeBytes == { 0, 3, 255 }
CompositeColors ==
  { fromBytesBigEndian(r, 0, 200, a) : r \in { 0, 255 }, a \in CompositeBytes }
CompositeAlphaInputs == { Fin(0), Fin(1), Fin(One), NaN }

CompositeInit ==
  /\ NewContext(NewBitmap(BitmapW, BitmapH))
  /\ \E old \in CompositeColors, new \in CompositeColors :
       script = [pc |-> "start", old |-> old, new |-> new]

Composite_globalAlpha ==
  /\ script.pc = "start"
  /\ Count(MaxCompositeOps)
  /\ \E v \in CompositeAlphaInputs : set_globalAlpha(v)
  /\ script' = [script EXCEPT !.pc = "alpha"]
  /\ UNCHANGED snapshots

Composite_composite ==
  /\ script.pc \in { "start", "alpha" }
  /\ Count(MaxCompositeOps)
  /\ last' = Op("composite", << script.old, script.new >>,
                composite(0, 0, script.old, script.new), FALSE)
  /\ script' = [script EXCEPT !.pc = "done"]
  /\ writes' = << >>
  /\ UNCHANGED << bitmap, ctx, snapshots >>

CompositeNext ==
  \/ Composite_globalAlpha
  \/ Composite_composite

SpecComposite == CompositeInit /\ [][CompositeNext]_vars

\* ---- SpecCubic: bezierToLines(curve, 10) on chosen curves
\* pixels between the control points of an ordinary curve
CubicSpan == 4
\* the coordinates of the control points, in units of the cubic code: those of
\* a small curve, and the largest finite numbers of either sign
CubicOrdinary ==
  { [x |-> Fin(x), y |-> Fin(y)] :
      x \in { 0, CubicSpan * CubicUnit }, y \in { 0, CubicSpan * CubicUnit } }
CubicPoints ==
  CubicOrdinary \cup { [x |-> Fin(x), y |-> Fin(0)] : x \in { 0 - MaxValue, MaxValue } }

\* the call of a function that returned r.pts or threw
returned(name, arg, r) == Op(name, << arg >>, r.pts, r.threw)

CubicInit ==
  /\ NewContext(NewBitmap(BitmapW, BitmapH))
  /\ \E p1 \in CubicPoints, p2 \in CubicPoints, p3 \in CubicOrdinary, p4 \in CubicOrdinary :
       script = [pc |-> "start", curve |-> << p1, p2, p3, p4 >>]

Cubic_bezierToLines ==
  /\ script.pc = "start"
  /\ Count(MaxCubicOps)
  /\ last' = returned("bezierToLines", script.curve, bezierToLines(script.curve, 10))
  /\ script' = [script EXCEPT !.pc = "done"]
  /\ writes' = << >>
  /\ UNCHANGED << bitmap, ctx, snapshots >>

CubicNext ==
  \/ Cubic_bezierToLines

SpecCubic == CubicInit /\ [][CubicNext]_vars

\* ---- SpecLine: a caller that strokes one segment without anti-aliasing
\* end points around the buffer, at halves of a pixel, and two in the range
\* of the integers that a step of one does not change
LineOrdinary ==
  { Point(x, y) : x \in { 0 - 1, 0, Num(1) + 1, Num(BitmapW) }, y \in { 0, Num(1) + 1 } }
LineCoarse == { Point(Num(Coarse), 0), Point(Num(Coarse + 4), 0) }

\* a segment that starts in the buffer ends there: the walk from the buffer to
\* the coarse range is as long as the range is far
LineInit ==
  /\ NewContext(NewBitmap(BitmapW, BitmapH))
  /\ \E a \in LineOrdinary \cup LineCoarse, b \in LineOrdinary \cup LineCoarse :
       /\ a \in LineOrdinary => b \in LineOrdinary
       /\ script = [pc |-> "strokeStyle", a |-> a, b |-> b]

LineGoto(pc) == Count(MaxLineOps) /\ script' = [script EXCEPT !.pc = pc] /\ UNCHANGED snapshots

Line_strokeStyle == At("strokeStyle") /\ set_strokeStyle("red") /\ LineGoto("imageSmoothingEnabled")

Line_imageSmoothingEnabled ==
  At("imageSmoothingEnabled") /\ set_imageSmoothingEnabled(FALSE) /\ LineGoto("beginPath")

Line_beginPath == At("beginPath") /\ beginPath /\ LineGoto("moveTo")

Line_moveTo == At("moveTo") /\ moveTo(script.a.x, script.a.y) /\ LineGoto("lineTo")

Line_lineTo == At("lineTo") /\ lineTo(script.b.x, script.b.y) /\ LineGoto("stroke")

Line_stroke == At("stroke") /\ stroke /\ LineGoto("done")

LineNext ==
  \/ Line_strokeStyle
  \/ Line_imageSmoothingEnabled
  \/ Line_beginPath
  \/ Line_moveTo
  \/ Line_lineTo
  \/ Line_stroke

SpecLine == LineInit /\ [][LineNext]_vars

\* ---- SpecPolygon: a caller that clips to a convex polygon, traced as moveTo,
\* lineTo ..., closePath, and asks pixelInsideClip about points before and after
Polygons ==
  { << Point(0, 0), Point(Num(3), 0), Point(0, Num(3)) >>,
    << Point(0, 0), Point(0, Num(3)), Point(Num(3), 0) >>,
    << Point(One, One), Point(Num(3), One), Point(Num(3), Num(3)), Point(One, Num(3)) >>,
    << Point(Num(2), 0), Point(Num(4), Num(2)), Point(Num(2), Num(4)), Point(0, Num(2)) >> }

\* the points asked about: every fixed-point coordinate from -1 to MaxQuery
QueryInputs == (0 - One) .. Num(MaxQuery)

PolygonInit ==
  /\ NewContext(NewBitmap(BitmapW, BitmapH))
  /\ \E poly \in Polygons : script = [pc |-> "beginPath", poly |-> poly, k |-> 1]

PolygonGoto(pc, k) ==
  /\ script' = [script EXCEPT !.pc = pc, !.k = k]
  /\ nops' = nops + 1
  /\ UNCHANGED << snapshots, textModule >>

Polygon_beginPath == At("beginPath") /\ beginPath /\ PolygonGoto("moveTo", 1)

Polygon_moveTo ==
  At("moveTo") /\ moveTo(script.poly[1].x, script.poly[1].y) /\ PolygonGoto("lineTo", 2)

Polygon_lineTo ==
  /\ At("lineTo")
  /\ lineTo(script.poly[script.k].x, script.poly[script.k].y)
  /\ PolygonGoto(IF script.k = Len(script.poly) THEN "closePath" ELSE "lineTo", script.k + 1)

Polygon_closePath == At("closePath") /\ closePath /\ PolygonGoto("clip", script.k)

Polygon_clip == At("clip") /\ clip /\ PolygonGoto("clipped", script.k)

\* a call of pixelInsideClip(x, y): it changes nothing
Polygon_pixelInsideClip ==
  /\ script.pc \in { "beginPath", "clip", "clipped" }
  /\ \E x \in QueryInputs, y \in QueryInputs :
       last' = Op("pixelInsideClip", << x, y >>,
                  IF pixelInsideClipThrows THEN << >> ELSE pixelInsideClip(x, y),
                  pixelInsideClipThrows)
  /\ writes' = << >>
  /\ UNCHANGED << bitmap, ctx, textModule, snapshots, script, nops >>

PolygonNext ==
  \/ Polygon_beginPath
  \/ Polygon_moveTo
  \/ Polygon_lineTo
  \/ Polygon_closePath
  \/ Polygon_clip
  \/ Polygon_pixelInsideClip

SpecPolygon == PolygonInit /\ [][PolygonNext]_vars

\* ---- SpecClip: clip() among the path and transform operations
\* corners of a 50 x 50 square: coordinates that are multiples of 100 sub-units
ClipPoints == { Point(0, 0), Point(Num(50), 0), Point(Num(50), Num(50)) }

\* script.replaced is the clip that the last successful clip() replaced
ClipInit ==
  /\ NewContext(NewBitmap(BitmapW, BitmapH))
  /\ script = [pc |-> "free", replaced |-> undefinedClip]

Clip_beginPath == Step(MaxClipOps) /\ beginPath
Clip_moveTo == Step(MaxClipOps) /\ \E pt \in ClipPoints : moveTo(pt.x, pt.y)
Clip_lineTo == Step(MaxClipOps) /\ \E pt \in ClipPoints : lineTo(pt.x, pt.y)
Clip_quadraticCurveTo ==
  Step(MaxClipOps) /\ \E pt \in ClipPoints : quadraticCurveTo(Num(50), 0, pt.x, pt.y)
Clip_closePath == Step(MaxClipOps) /\ closePath
Clip_translate == Step(MaxClipOps) /\ translate(Num(50), 0)
Clip_rotate == Step(MaxClipOps) /\ rotate(1)
Clip_clip ==
  /\ Count(MaxClipOps)
  /\ clip
  /\ script' = IF pathToLinesThrows(path) THEN script
                ELSE [script EXCEPT !.replaced = _clip]
  /\ UNCHANGED snapshots

ClipNext ==
  \/ Clip_beginPath
  \/ Clip_moveTo
  \/ Clip_lineTo
  \/ Clip_quadraticCurveTo
  \/ Clip_closePath
  \/ Clip_translate
  \/ Clip_rotate
  \/ Clip_clip

SpecClip == ClipInit /\ [][ClipNext]_vars

\* ---- SpecFlatten: clip() on paths of lines, quadratic and cubic curves
Flatten_beginPath == Step(MaxFlattenOps) /\ beginPath
Flatten_moveTo == Step(MaxFlattenOps) /\ \E pt \in ClipPoints : moveTo(pt.x, pt.y)
Flatten_lineTo == Step(MaxFlattenOps) /\ \E pt \in ClipPoints : lineTo(pt.x, pt.y)
Flatten_quadraticCurveTo ==
  Step(MaxFlattenOps) /\ \E cp \in { Point(0, 0), Point(Num(50), Num(50)) }, pt \in ClipPoints :
                           quadraticCurveTo(cp.x, cp.y, pt.x, pt.y)
Flatten_bezierCurveTo ==
  Step(MaxFlattenOps) /\ \E pt \in ClipPoints : bezierCurveTo(0, Num(50), Num(50), Num(50), pt.x, pt.y)
Flatten_closePath == Step(MaxFlattenOps) /\ closePath
Flatten_clip == Step(MaxFlattenOps) /\ clip

FlattenNext ==
  \/ Flatten_beginPath
  \/ Flatten_moveTo
  \/ Flatten_lineTo
  \/ Flatten_quadraticCurveTo
  \/ Flatten_bezierCurveTo
  \/ Flatten_closePath
  \/ Flatten_clip

SpecFlatten == Init /\ [][FlattenNext]_vars

\* ---- SpecUnsupported: arcTo(), rect() and ellipse() among operations that
\* change the bitmap, the path, the clip and the transform
Unsupported_fillRect == Step(MaxUnsupportedOps) /\ fillRect(0, 0, One, One)
Unsupported_fillStyle == Step(MaxUnsupportedOps) /\ set_fillStyle("red")
Unsupported_beginPath == Step(MaxUnsupportedOps) /\ beginPath
Unsupported_moveTo == Step(MaxUnsupportedOps) /\ moveTo(One, 0)
Unsupported_lineTo == Step(MaxUnsupportedOps) /\ \E y \in { 0, Num(2) } : lineTo(0, y)
Unsupported_clip == Step(MaxUnsupportedOps) /\ clip
Unsupported_translate == Step(MaxUnsupportedOps) /\ translate(One, 0)
Unsupported_arcTo == Step(MaxUnsupportedOps) /\ arcTo
Unsupported_rect == Step(MaxUnsupportedOps) /\ rect
Unsupported_ellipse == Step(MaxUnsupportedOps) /\ ellipse

UnsupportedNext ==
  \/ Unsupported_fillRect
  \/ Unsupported_fillStyle
  \/ Unsupported_beginPath
  \/ Unsupported_moveTo
  \/ Unsupported_lineTo
  \/ Unsupported_clip
  \/ Unsupported_translate
  \/ Unsupported_arcTo
  \/ Unsupported_rect
  \/ Unsupported_ellipse

SpecUnsupported == Init /\ [][UnsupportedNext]_vars

\* ---- SpecFont: registering and loading fonts
FontFamilies == { "serif", "mono" }
FontFiles == { "a.ttf", "b.ttf" }

Font_registerFont ==
  /\ TextStep(MaxFontOps)
  /\ \E f \in FontFiles, family \in FontFamilies :
       registerFont(f, family, 400, "normal", "normal")

Font_load ==
  /\ TextStep(MaxFontOps)
  /\ \E self \in 1 .. Len(fontObjects), cb \in BOOLEAN : load(self, cb)

\* a file load that is under way ends, with the font or with an error
Font_loadFont_callback ==
  /\ TextStep(MaxFontOps)
  /\ \E k \in 1 .. Len(loads), err \in BOOLEAN :
       loads[k].state = "reading" /\ loadFont_callback(k, err)

FontNext ==
  \/ Font_registerFont
  \/ Font_load
  \/ Font_loadFont_callback

SpecFont == Init /\ [][FontNext]_vars

\* ---- SpecText: painting and measuring text
TextInputs == { << >>, << "I" >> }

Text_registerFont ==
  /\ TextStep(MaxTextOps)
  /\ \E f \in FontFiles : registerFont(f, "serif", 400, "normal", "normal")

Text_load ==
  /\ TextStep(MaxTextOps)
  /\ \E self \in 1 .. Len(fontObjects) : load(self, FALSE)

Text_loadFont_callback ==
  /\ TextStep(MaxTextOps)
  /\ \E k \in 1 .. Len(loads) : loads[k].state = "reading" /\ loadFont_callback(k, FALSE)

Text_font ==
  /\ Step(MaxTextOps)
  /\ \E family \in FontFamilies : set_font(1, family)

Text_imageSmoothingEnabled == Step(MaxTextOps) /\ set_imageSmoothingEnabled(FALSE)

Text_textAlign == Step(MaxTextOps) /\ set_textAlign("center")

Text_textBaseline == Step(MaxTextOps) /\ set_textBaseline("top")

Text_fillText ==
  /\ TextStep(MaxTextOps)
  /\ \E text \in TextInputs : fillText(text, 0, One)

Text_strokeText ==
  /\ TextStep(MaxTextOps)
  /\ \E text \in TextInputs : strokeText(text, 0, One)

Text_measureText ==
  /\ TextStep(MaxTextOps)
  /\ \E text \in TextInputs : ctx_measureText(text)

TextNext ==
  \/ Text_registerFont
  \/ Text_load
  \/ Text_loadFont_callback
  \/ Text_font
  \/ Text_imageSmoothingEnabled
  \/ Text_textAlign
  \/ Text_textBaseline
  \/ Text_fillText
  \/ Text_strokeText
  \/ Text_measureText

SpecText == Init /\ [][TextNext]_vars

\* ---- SpecOutline: a caller that loads a font, may trace a path of its own,
\* and paints a text; script.before is the path at the time of the call
OutlineTexts == { << >>, << "I" >>, << "I", "I" >> }

OutlineInit ==
  /\ NewContext(NewBitmap(BitmapW, BitmapH))
  /\ \E file \in FontFiles, text \in OutlineTexts, filled \in BOOLEAN, own \in BOOLEAN :
       script = [pc |-> "registerFont", file |-> file, text |-> text, filled |-> filled,
                 own |-> own, before |-> undefinedPath]

OutlineGoto(pc) ==
  /\ nops < MaxOutlineOps
  /\ nops' = nops + 1
  /\ script' = [script EXCEPT !.pc = pc]
  /\ UNCHANGED snapshots

Outline_registerFont ==
  /\ At("registerFont")
  /\ registerFont(script.file, "serif", 400, "normal", "normal")
  /\ OutlineGoto("load")

Outline_load == At("load") /\ load(1, FALSE) /\ OutlineGoto("loadFont_callback")

Outline_loadFont_callback ==
  /\ At("loadFont_callback")
  /\ loadFont_callback(1, FALSE)
  /\ OutlineGoto(IF script.own THEN "beginPath" ELSE "text")

Outline_beginPath ==
  At("beginPath") /\ beginPath /\ OutlineGoto("moveTo") /\ UNCHANGED textModule

Outline_moveTo ==
  At("moveTo") /\ moveTo(0, 0) /\ OutlineGoto("lineTo") /\ UNCHANGED textModule

Outline_lineTo ==
  At("lineTo") /\ lineTo(One, One) /\ OutlineGoto("text") /\ UNCHANGED textModule

\* the call of fillText or strokeText, and the path it found
OutlineCalled ==
  /\ nops < MaxOutlineOps
  /\ nops' = nops + 1
  /\ script' = [script EXCEPT !.pc = "done", !.before = path]
  /\ UNCHANGED snapshots

Outline_fillText ==
  At("text") /\ script.filled /\ fillText(script.text, 0, One) /\ OutlineCalled

Outline_strokeText ==
  At("text") /\ ~script.filled /\ strokeText(script.text, 0, One) /\ OutlineCalled

OutlineNext ==
  \/ Outline_registerFont
  \/ Outline_load
  \/ Outline_loadFont_callback
  \/ Outline_beginPath
  \/ Outline_moveTo
  \/ Outline_lineTo
  \/ Outline_fillText
  \/ Outline_strokeText

SpecOutline == OutlineInit /\ [][OutlineNext]_vars

\* =========================================================================
\* Claims
\* =========================================================================
\* C1: for every coordinate whose floor lies outside the buffer, setPixelRGBA
\* and setPixelRGBA_i leave every pixel of the buffer unchanged, getPixelRGBA
\* returns 0, and no error is raised.
C1_OutOfBoundsIsNoOp ==
  [][ (/\ last'.op \in {"setPixelRGBA", "setPixelRGBA_i", "getPixelRGBA"}
       /\ ~InBounds(bitmap, last'.args[1], last'.args[2]))
      => /\ last'.threw = FALSE
         /\ bitmap' = bitmap
         /\ last'.op = "getPixelRGBA" => last'.ret = transparent ]_vars

TransformOps == { "translate", "rotate", "scale", "save", "restore" }

IsPrefix(s, t) == Len(s) <= Len(t) /\ SubSeq(t, 1, Len(s)) = s

\* C3: a command appended by moveTo, lineTo, quadraticCurveTo or bezierCurveTo
\* stores the images of its arguments under the transform current at the time of
\* the append, and translate, rotate, scale, save and restore leave every command
\* already in the path unchanged.
C3_PointsBakedAtInsertion ==
  [][ LET args == last'.args
          img(pt) == transformPoint(transform, pt)
          appended(cmd) == last'.threw = FALSE => path' = Append(path, cmd)
      IN /\ last'.op \in TransformOps => path' = path
         /\ last'.op = "moveTo" => appended(Cmd(MOVE, << img(args[1]) >>))
         /\ last'.op = "lineTo" => appended(Cmd(LINE, << img(args[1]) >>))
         /\ last'.op = "quadraticCurveTo" =>
              appended(Cmd(QUADRATIC_CURVE, << img(args[1]), img(args[2]) >>))
         /\ last'.op = "bezierCurveTo" =>
              appended(Cmd(BEZIER_CURVE, << img(args[1]), img(args[2]), img(args[3]) >>))
         /\ (last'.op # "beginPath" /\ path # undefinedPath) => IsPrefix(path, path')
    ]_vars

\* C3 witness: a command whose stored point is not its argument (the transform
\* was not the identity at the append), followed by a change of the transform.
C3_Witness ==
  /\ last.op = "rotate"
  /\ path # undefinedPath
  /\ Len(path) >= 1
  /\ path[1].pts[1] \notin PathPoints

\* C7: closePath() appends exactly one Line command to the remembered start
\* point when a start point is set, and is a no-op (no error) when none is set.
\* Stated for a context whose path has been begun.
C7_ClosePath ==
  [][ (last'.op = "closePath" /\ path # undefinedPath)
      => /\ last'.threw = FALSE
         /\ IF pathstart # undefined
              THEN path' = Append(path, Cmd(LINE, << pathstart >>))
              ELSE path' = path
         /\ pathstart' = pathstart ]_vars

\* C8: beginPath() resets the path: afterwards the command list is empty and no
\* start point is set; all other state is unchanged.  Stated for a context whose
\* path has been begun before.
C8_BeginPathResets ==
  [][ (last'.op = "beginPath" /\ path # undefinedPath)
      => /\ path' = << >>
         /\ pathstart' = undefined
         /\ UNCHANGED << bitmap, ctxStyle, transform, _clip >> ]_vars

C5_GlobalAlphaInUnitInterval ==
  /\ _globalAlpha.kind = "finite"
  /\ _globalAlpha.v >= 0
  /\ _globalAlpha.v <= One

\* C6: assigning a zero, negative, Infinity or NaN value to lineWidth is ignored;
\* assigning any other value sets lineWidth to that value.
C6_LineWidthIgnoresInvalid ==
  [][ last'.op = "set lineWidth"
      => LET val == last'.args[1]
         IN _lineWidth' = IF val.kind = "finite" /\ val.v > 0 THEN val
                          ELSE _lineWidth ]_vars

PaintOps == { "fillRect", "strokeRect", "drawImage", "fill", "stroke" }

\* C2: every paint operation writes a bitmap pixel only after the clip test
\* accepted that pixel, and only with the value composite(old pixel, new colour).
C2_PaintThroughClipAndCompositor ==
  last.op \in PaintOps =>
    \A k \in 1 .. Len(writes) :
      LET wr == writes[k]
      IN /\ ~pixelInsideClipThrows
         /\ pixelInsideClip(wr.x, wr.y)
         /\ wr.rgba = composite(wr.x, wr.y, wr.old, wr.src)

\* the rectangle of the caller lies within the bitmap
RectInside(r) ==
  /\ r.x >= 0 /\ r.x + r.w <= bitmap.width
  /\ r.y >= 0 /\ r.y + r.h <= bitmap.height

\* the bitmap fillRect(x, y, w, h) leaves when run on a new bitmap in this state
AfterFillRect(r) ==
  fillRectOn([b |-> NewBitmap(BitmapW, BitmapH), w |-> << >>, threw |-> FALSE, hung |-> FALSE],
             r.x, r.y, r.w, r.h).b

\* C9: on an empty buffer with identity transform and no clip, fill() of the
\* path tracing a rectangle with integer bounds changes exactly the same pixels,
\* to the same colour, as fillRect of that rectangle.  Stated for rectangles
\* that lie within the buffer.
C9_FillEqualsFillRect ==
  (script.pc = "done" /\ script.r.how = "path" /\ RectInside(script.r))
    => bitmap = AfterFillRect(script.r)

\* C10: on a transparent buffer with no clip and global alpha 1, fillRect with
\* an opaque colour c leaves c at every in-bounds pixel (i, j) with
\* x <= i < x + w and y <= j < y + h, and every other pixel transparent.
C10_FillRectPixels ==
  (script.pc = "done" /\ script.r.how = "fillRect")
    => \A px \in Pixels(bitmap) :
         LET r == script.r
             inside == /\ r.x <= Num(px[1]) /\ Num(px[1]) < r.x + r.w
                       /\ r.y <= Num(px[2]) /\ Num(px[2]) < r.y + r.h
         IN PixelAt(bitmap, px[1], px[2]) =
              IF inside THEN colorStringToUint32(r.c) ELSE transparent

\* the alpha byte of a colour
AlphaOf(c) == getBytesBigEndian(c)[4]

\* C11: with global alpha 1, composite(old, new) returns exactly new for every
\* destination colour old whenever the source colour new is fully opaque.
C11_OpaqueSourceWins ==
  (last.op = "composite" /\ _globalAlpha = Fin(One) /\ AlphaOf(last.args[2]) = 255)
    => last.ret = last.args[2]

\* C11 witness: an opaque source composited at global alpha 1 over a different,
\* partly transparent destination.
C11_Witness ==
  /\ last.op = "composite"
  /\ _globalAlpha = Fin(One)
  /\ AlphaOf(last.args[2]) = 255
  /\ AlphaOf(last.args[1]) = 3
  /\ getBytesBigEndian(last.args[1])[1] # getBytesBigEndian(last.args[2])[1]

\* C12: composite(old, new) returns exactly old for every destination colour old,
\* a fully transparent one included, whenever the source colour new is fully
\* transparent.
C12_TransparentSourceKeepsDestination ==
  (last.op = "composite" /\ AlphaOf(last.args[2]) = 0)
    => last.ret = last.args[1]

\* C13: composite never divides by a zero combined alpha: when the source alpha
\* times the global alpha and the destination alpha are both zero, the divisor of
\* the blend is not zero (the case is decided without computing 0 / 0).
C13_NoZeroDivision ==
  (/\ last.op = "composite"
   /\ _globalAlpha.kind = "finite"
   /\ AlphaOf(last.args[2]) * _globalAlpha.v = 0
   /\ AlphaOf(last.args[1]) = 0)
    => compitDivisor(last.args[1], last.args[2]) # 0

\* (b - a) x (p - a): positive when p lies to the left of the edge from a to b
cross(a, b, p) == (b.x - a.x) * (p.y - a.y) - (b.y - a.y) * (p.x - a.x)

\* the values of cross for the edges of a polygon, in order
crosses(poly, p) ==
  { cross(poly[k], poly[(k % Len(poly)) + 1], p) : k \in 1 .. Len(poly) }

StrictlyInside(poly, p) ==
  \/ \A c \in crosses(poly, p) : c > 0
  \/ \A c \in crosses(poly, p) : c < 0

StrictlyOutside(poly, p) ==
  /\ \E c \in crosses(poly, p) : c > 0
  /\ \E c \in crosses(poly, p) : c < 0

C15_ClipIsSnapshot ==
  [][IF last'.op = "clip" /\ ~last'.threw
       THEN _clip' = pathToLines(path) /\ path' = path
       ELSE _clip' = _clip]_vars

\* A second clip() has replaced a first, different one, and a lineTo() after
\* it has made the path differ from the clip.
C15_Witness ==
  /\ script.pc = "free"
  /\ script.replaced # undefinedClip
  /\ _clip # undefinedClip
  /\ script.replaced # _clip
  /\ last.op = "lineTo"
  /\ ~last.threw
  /\ pathToLines(path) # _clip

\* C19: flattening a path of one moveTo and one quadraticCurveTo gives exactly
\* 10 segments, the k-th ending at the point of the curve for t = (k - 1) / 10,
\* computed from the current point, the control point and the end point.
C19_QuadraticTenSegments ==
  (/\ last.op = "clip"
   /\ ~last.threw
   /\ Len(path) = 2
   /\ path[1].cmd = MOVE
   /\ path[2].cmd = QUADRATIC_CURVE)
    => /\ Len(_clip) = 10
       /\ \A k \in 1 .. 10 :
            _clip[k].end = calcQuadraticAtT(<< path[1].pts[1], path[2].pts[1],
                                               path[2].pts[2] >>, k - 1)

\* C16: arcTo(), rect() and ellipse() throw the error "<name> not yet
\* supported" in every state, and leave the path, its start point, the clip,
\* the transform, the style and the bitmap as they were.
UnsupportedOps == { "arcTo", "rect", "ellipse" }

C16_UnsupportedThrow ==
  [][last'.op \in UnsupportedOps
       => /\ last'.threw
          /\ last'.ret = << last'.op \o " not yet supported" >>
          /\ path' = path
          /\ pathstart' = pathstart
          /\ _clip' = _clip
          /\ transform' = transform
          /\ ctxStyle' = ctxStyle
          /\ bitmap' = bitmap]_vars

\* rect() has thrown on a context with a painted pixel, a path under
\* construction, a clip and a translation
C16_Witness ==
  /\ last.op = "rect"
  /\ last.threw
  /\ getPixelRGBA(bitmap, 0, 0) # transparent
  /\ path # undefinedPath
  /\ Len(path) > 0
  /\ _clip # undefinedClip

\* C18: a font is registered with loaded = FALSE; a font that is loaded stays
\* loaded and keeps a font handle; a load(cb) on a loaded font invokes cb once
\* at once, starts no file load and changes no font; a load(cb) whose file
\* load succeeds invokes cb then, once; no cb is ever invoked a second time.
C18_LoadOneShot ==
  [][/\ \A r \in 1 .. Len(fontObjects') :
          IF r > Len(fontObjects)
            THEN ~fontObjects'[r].loaded
            ELSE fontObjects[r].loaded
                   => fontObjects'[r].loaded /\ fontObjects'[r].font # null
     /\ (last'.op = "load" /\ fontObjects[last'.args[1]].loaded)
          => /\ fontObjects' = fontObjects
             /\ _fonts' = _fonts
             /\ loads'[Len(loads')].state = "cached"
             /\ loads'[Len(loads')].invoked = (IF last'.args[2] THEN 1 ELSE 0)
     /\ \A k \in 1 .. Len(loads') :
          /\ loads'[k].state = "loaded" => loads'[k].invoked = (IF loads'[k].cb THEN 1 ELSE 0)
          /\ (k <= Len(loads) /\ loads[k].state # "reading") => loads'[k] = loads[k]]_vars

\* load(cb) has been called on a font that an earlier load had loaded, and
\* its cb has been invoked once
C18_Witness ==
  /\ last.op = "load"
  /\ loads[Len(loads)].state = "cached"
  /\ loads[Len(loads)].cb
  /\ loads[Len(loads)].invoked = 1
  /\ \E k \in 1 .. Len(loads) - 1 :
       loads[k].state = "loaded" /\ loads[k].cb /\ loads[k].self = loads[Len(loads)].self

\* C17: fillText, strokeText and measureText with a font family that is not
\* registered emit a diagnostic and use a registered font when there is one,
\* and fail, leaving the bitmap and the path as they were, when there is none.
TextOps == { "fillText", "strokeText", "measureText" }

C17_UnregisteredFamily ==
  [][(last'.op \in TextOps /\ ~HasFont(_font.family))
       => IF Len(_fonts) > 0
            THEN Len(console') > Len(console)
            ELSE last'.threw /\ bitmap' = bitmap /\ path' = path]_vars

\* C20: after fill() with anti-aliasing off, the pixels changed are among
\* those of the closed ranges floor(start) .. floor(end) of the pairs of sorted
\* intersections on the integer scanlines from the top of the bounds of the
\* path to one above their bottom, and every pixel of these ranges that passes
\* the clip test has been written.
\* the pixel that a write at (x, y) lands on
Landed(x, y) ==
  IF InBounds(bitmap, x, y) THEN Point(floor(x), floor(y)) ELSE Point(0, 0)

\* pixel (i, j) is in the range of a pair of intersections of scanline j
InPair(lines, i, j) ==
  LET ints == calcSortedIntersections(lines, j)
  IN \E k \in 1 .. Len(ints) \div 2 :
       RatFloor(ints[2 * k - 1]) <= i /\ i <= RatFloor(ints[2 * k])

Scanlines(lines) ==
  { j \in calcMinimumBounds(lines).y .. calcMinimumBounds(lines).y2 - One : j % One = 0 }

C20_EvenOddScanlineFill ==
  (/\ last.op = "fill"
   /\ ~last.threw
   /\ ~imageSmoothingEnabled
   /\ pathToLines(path) # << >>)
    => /\ \A k \in 1 .. Len(writes) :
            writes[k].rgba # writes[k].old
              => /\ Landed(writes[k].x, writes[k].y).y \in Scanlines(pathToLines(path))
                 /\ InPair(pathToLines(path), Landed(writes[k].x, writes[k].y).x,
                            Landed(writes[k].x, writes[k].y).y)
       /\ \A i \in 0 .. BitmapW - 1, j \in 0 .. BitmapH - 1 :
            (/\ Num(j) \in Scanlines(pathToLines(path))
             /\ InPair(pathToLines(path), Num(i), Num(j))
             /\ pixelInsideClip(Num(i), Num(j)))
              => \E k \in 1 .. Len(writes) :
                   Landed(writes[k].x, writes[k].y) = Point(Num(i), Num(j))

\* ---- C21
\* every split of recurse() on curve, down to the chords: the two halves share
\* the split point, keep the end points of the curve, and are each flatter
\* than the curve
RECURSIVE splitsShrink(_, _)
halvesShrink(curve, split, depth) ==
  /\ split[1][4] = split[2][1]
  /\ split[1][1] = curve[1]
  /\ split[2][4] = curve[4]
  /\ Less(flatness(split[1]), flatness(curve))
  /\ Less(flatness(split[2]), flatness(curve))
  /\ splitsShrink(split[1], depth + 1)
  /\ splitsShrink(split[2], depth + 1)

splitsShrink(curve, depth) ==
  \/ depth > MaxCallStack
  \/ flat(curve, 10)
  \/ halvesShrink(curve, splitCurveAtT(curve, [n |-> 1, d |-> 2]), depth)

\* the control points of an ordinary curve: within CubicSpan pixels
Ordinary(curve) ==
  \A i \in 1..4 : Abs(curve[i].x.v) <= CubicSpan * CubicUnit /\ Abs(curve[i].y.v) <= CubicSpan * CubicUnit

\* C21: bezierToLines returns for every cubic with finite control points, and
\* every split it makes yields two halves that share the split point, keep the
\* end points and are each strictly flatter than the curve that was split.
C21_CubicFlatteningTerminates ==
  last.op = "bezierToLines" =>
    /\ ~last.threw
    /\ splitsShrink(last.args[1], 1)

\* the same of the ordinary curves alone
CubicOrdinaryTerminates ==
  (last.op = "bezierToLines" /\ Ordinary(last.args[1])) =>
    /\ ~last.threw
    /\ splitsShrink(last.args[1], 1)
    /\ last.ret[1] = last.args[1][1]
    /\ last.ret[Len(last.ret)] = last.args[1][4]

\* ---- C22
\* the pixels painted by the stroke of the segment from a to b, in their order:
\* the first is the floored a, the last the floored b, each next one is one of
\* the eight neighbours of the one before, and each was composited from the
\* stroke colour
BresenhamWalk(a, b) ==
  /\ Len(writes) >= 1
  /\ writes[1].x = floor(a.x) /\ writes[1].y = floor(a.y)
  /\ writes[Len(writes)].x = floor(b.x) /\ writes[Len(writes)].y = floor(b.y)
  /\ \A i \in 2 .. Len(writes) :
       /\ Abs(writes[i].x - writes[i - 1].x) \in { 0, One }
       /\ Abs(writes[i].y - writes[i - 1].y) \in { 0, One }
       /\ << writes[i].x, writes[i].y >> # << writes[i - 1].x, writes[i - 1].y >>
  /\ \A i \in 1 .. Len(writes) :
       /\ writes[i].src = _strokeColor
       /\ writes[i].rgba = composite(writes[i].x, writes[i].y, writes[i].old, _strokeColor)

\* C22: the stroke of a segment with finite end points, anti-aliasing off,
\* returns, and has painted the floored start pixel first, the floored end
\* pixel last, each pixel an 8-neighbour of the one before, every one through
\* strokePixel with the stroke colour.
C22_AliasedStrokeTerminates ==
  (script.pc = "done" /\ last.op = "stroke") =>
    /\ last.ret = << >>
    /\ ~last.threw
    /\ BresenhamWalk(script.a, script.b)

\* the same of the segments around the buffer
LineOrdinaryTerminates ==
  (script.pc = "done" /\ last.op = "stroke"
     /\ script.a \in LineOrdinary /\ script.b \in LineOrdinary) =>
    /\ last.ret = << >>
    /\ ~last.threw
    /\ BresenhamWalk(script.a, script.b)

\* ---- C23
\* C23: compositing never makes an opaque pixel translucent: for every source
\* colour and every global alpha in [0, 1], composite(old, new) of a fully
\* opaque destination old returns a colour whose alpha byte is 255.
C23_OpaqueStaysOpaque ==
  (/\ last.op = "composite"
   /\ _globalAlpha.kind = "finite" /\ _globalAlpha.v >= 0 /\ _globalAlpha.v <= One
   /\ AlphaOf(last.args[1]) = 255)
    => AlphaOf(last.ret) = 255

\* ---- C24
\* the point of the latest Move among the first n commands of p
RECURSIVE latestMove(_, _)
latestMove(p, n) ==
  IF n = 0 THEN null
  ELSE IF p[n].cmd = MOVE THEN p[n].pts[1]
  ELSE latestMove(p, n - 1)

\* the segments that command n of p emits start where the segment before
\* ended, or at the point of the latest Move
Connected(p, n) ==
  \A k \in Len(pathToLinesState(p, n - 1).lines) + 1 .. Len(pathToLinesState(p, n).lines) :
    \/ k > 1 /\ pathToLinesState(p, n).lines[k].start = pathToLinesState(p, n).lines[k - 1].end
    \/ pathToLinesState(p, n).lines[k].start = latestMove(p, n)

\* after command n of p the current point is the end point of the command
EndsAtEndPoint(p, n) ==
  /\ pathToLinesState(p, n).curr = p[n].pts[Len(p[n].pts)]
  /\ pathToLinesState(p, n).side = << 0, 0 >>

\* a path that starts with a Move and that clip() has flattened
FlattenedFromMove ==
  /\ last.op = "clip" /\ ~last.threw
  /\ Len(path) >= 1 /\ path[1].cmd = MOVE

\* C24: for a path that starts with a Move, every segment that pathToLines
\* emits starts at the end of the segment emitted before it or at the point of
\* the latest Move, and after a Line, Quadratic or Cubic command the current
\* point equals the end point of the command.
C24_ConnectedPolyline ==
  FlattenedFromMove =>
    \A n \in 1 .. Len(path) :
      /\ Connected(path, n)
      /\ path[n].cmd \in { LINE, QUADRATIC_CURVE, BEZIER_CURVE } => EndsAtEndPoint(path, n)

\* the same with the end point of the Line and Cubic commands alone
ConnectedButQuadraticEnd ==
  FlattenedFromMove =>
    \A n \in 1 .. Len(path) :
      /\ Connected(path, n)
      /\ path[n].cmd \in { LINE, BEZIER_CURVE } => EndsAtEndPoint(path, n)

\* ---- C25
\* the outline that a call of fillText / strokeText with these arguments gets
\* from the font in this state
OutlineOf(text, x, y) ==
  getPath(findFont(_font.family).font.file, text,
          alignX(x, textAlign, measureText(text).ret),
          alignY(y, textBaseline, measureText(text).ret), _font.size)

\* the index of the last close command of an outline, 0 when it has none
RECURSIVE lastClose(_, _)
lastClose(commands, n) ==
  IF n = 0 THEN 0
  ELSE IF commands[n].type = "Z" THEN n
  ELSE lastClose(commands, n - 1)

\* a move or line command of an outline as a command of the path
AsPathCommand(c) ==
  Cmd(IF c.type = "M" THEN MOVE ELSE LINE, << transformPoint(transform, Point(c.x, c.y)) >>)

\* the contour that the close command at index z of an outline ends: the
\* commands after the close command before it, and the line back to its start
RECURSIVE contour(_, _)
contour(commands, z) ==
  IF z = 1 \/ commands[z - 1].type = "Z" THEN << >>
  ELSE Append(contour(commands, z - 1), AsPathCommand(commands[z - 1]))

closedContour(commands, z) ==
  Append(contour(commands, z), Cmd(LINE, << contour(commands, z)[1].pts[1] >>))

\* the paint state after one fill() or stroke() for each contour that a close
\* command among the first n commands ends, in their order
RECURSIVE eachContourOnce(_, _, _, _)
eachContourOnce(st, commands, filled, n) ==
  IF n = 0 THEN st
  ELSE IF commands[n].type = "Z"
    THEN paintContour(eachContourOnce(st, commands, filled, n - 1),
                      closedContour(commands, n), filled)
  ELSE eachContourOnce(st, commands, filled, n - 1)

\* the commands of an outline that follow its last close command
afterLastClose(commands) ==
  [k \in 1 .. Len(commands) - lastClose(commands, Len(commands)) |->
     AsPathCommand(commands[lastClose(commands, Len(commands)) + k])]

OutlinePainted(commands, filled) ==
  /\ path' = afterLastClose(commands)
  /\ bitmap' = eachContourOnce(Paint0, commands, filled, Len(commands)).b
  /\ writes' = eachContourOnce(Paint0, commands, filled, Len(commands)).w

\* C25: a call of fillText or strokeText that returns has discarded the path
\* built before it, has painted each contour of the outline that ends with a
\* close command by one fill() or stroke() of that contour alone, and leaves
\* as the current path the commands that followed the last close command
\* (none when the outline ends with a close).
C25_OutlineReplacesPath ==
  [][ (last'.op \in { "fillText", "strokeText" } /\ ~last'.threw /\ last'.ret = << >>)
        => OutlinePainted(OutlineOf(last'.args[1], last'.args[2], last'.args[3]),
                          last'.op = "fillText") ]_vars

\* C25 witness: a text of two glyphs, each a closed contour, painted with a
\* font whose outline ends with an open contour, by a caller that had traced a
\* path of its own: the two commands of the open contour are the path.
C25_Witness ==
  /\ script.pc = "done"
  /\ last.op \in { "fillText", "strokeText" } /\ ~last.threw
  /\ Len(last.args[1]) = 2
  /\ script.file = "b.ttf"
  /\ script.before # undefinedPath /\ Len(script.before) = 2
  /\ Len(writes) > 0
  /\ Len(path) = 2 /\ path # script.before

====
